---- MODULE Spec2Model ----
(***************************************************************************)
(* The dialogue core of the university help-desk Telegram bot              *)
(* (src/telegram_bot.py): the in-memory session store, the selection flow  *)
(* university -> faculty -> department driven by callback events, and the  *)
(* free-text message handler with its capped conversation history.         *)
(* In the sequential specifications every handler is one atomic action;    *)
(* the parallel ones split handle_message into its statements.  The text   *)
(* helpers of the knowledge context and of services/faq_service.py are     *)
(* operators applied to enumerated inputs.                                 *)
(***************************************************************************)
EXTENDS Integers, Sequences, FiniteSets, TLC

\* ---------------------------------------------------------------- bounds
\* Accepted free-text messages in the one-user specification (6 messages =
\* 12 appended turns, past the cap of 10).
MaxMsgs == 6

\* Accepted free-text messages, all users together, in the several-user
\* specification.
MaxUsersMsgs == 1

\* The user ids that talk to the bot.
Users == {1, 2}

\* ------------------------------------------------------ program constants
MAX_HISTORY_MESSAGES == 10

CALLBACK_UNI == "uni"

CALLBACK_FAC == "fac"

CALLBACK_DEPT == "dept"

CALLBACK_SKIP == "skip_dept"

\* Python's None for the integer id fields and for the text fields.
None == -1

NoneStr == "<None>"

\* ------------------------------------------------------------- directory
\* The rows of the external directory (database).  University 1 has active
\* faculties, university 2 has only an inactive one, university 3 is
\* inactive, id 4 does not exist.
UniversityTable ==
    [i \in 1..3 |->
        [name |-> IF i = 1 THEN "Univ1" ELSE IF i = 2 THEN "Univ2" ELSE "Univ3",
         is_active |-> i # 3]]

\* Faculty 1 (of university 1) has an active department, faculty 2 (of
\* university 1) has only an inactive one, faculty 3 (of university 2) is
\* inactive, id 4 does not exist.
FacultyTable ==
    [i \in 1..3 |->
        [name |-> IF i = 1 THEN "Fac1" ELSE IF i = 2 THEN "Fac2" ELSE "Fac3",
         university_id |-> IF i = 3 THEN 2 ELSE 1,
         is_active |-> i # 3]]

\* Department 1 (of faculty 1) is active, department 2 (of faculty 2) is
\* inactive, id 3 does not exist.
DepartmentTable ==
    [i \in 1..2 |->
        [name |-> IF i = 1 THEN "Dept1" ELSE "Dept2",
         faculty_id |-> i,
         is_active |-> i = 1]]

\* The ids a callback may carry (a stale or forged button included).
UniIds == 1..4

FacIds == 1..4

DeptIds == 1..3

\* Model.query.get(id): the row or nothing.
UniversityFound(id) == id \in DOMAIN UniversityTable /\ UniversityTable[id].is_active

FacultyFound(id) == id \in DOMAIN FacultyTable /\ FacultyTable[id].is_active

\* A bug the department lookup could have: is_active is not checked.
DepartmentFound_any_row(id) == id \in DOMAIN DepartmentTable

DepartmentFound(id) == id \in DOMAIN DepartmentTable /\ DepartmentTable[id].is_active

\* _build_faculty_keyboard / _build_department_keyboard return None exactly
\* when the active-filtered child list is empty.
ActiveFaculties(university_id) ==
    {f \in DOMAIN FacultyTable :
        FacultyTable[f].university_id = university_id /\ FacultyTable[f].is_active}

ActiveDepartments(faculty_id) ==
    {d \in DOMAIN DepartmentTable :
        DepartmentTable[d].faculty_id = faculty_id /\ DepartmentTable[d].is_active}

ActiveUniversities == {i \in DOMAIN UniversityTable : UniversityTable[i].is_active}

\* ----------------------------------------------------------------- state
VARIABLES
    sessions,   \* the sessions dict: a function from the user ids that have a session
    log,        \* per user, every turn handed to _append_history since the session was created
    sent,       \* per user, how many free-text messages were accepted so far
    last,       \* the event dispatched last and the reply it produced
    inflight,   \* the message dispatches that await the generative collaborator
    call        \* a helper function applied on its own: its name, input and result;
                \* or the clock

vars == <<sessions, log, sent, last, inflight, call>>

\* The state the selection flow and the sequential message handler leave alone.
aux == <<inflight, call>>

\* datetime.now(): the reading of the clock in the specification that has
\* one (call is then the clock); elsewhere time is not observed and every
\* reading is 0.
Now == IF call.fn = "clock" THEN call.now ELSE 0

_new_session ==
    [university_id   |-> None,
     university_name |-> NoneStr,
     faculty_id      |-> None,
     faculty_name    |-> NoneStr,
     department_id   |-> None,
     department_name |-> NoneStr,
     session_start   |-> Now,
     history         |-> <<>>]

\* Python truthiness of an id field (None and 0 are falsy).
Truthy(x) == x # None /\ x # 0

\* sessions[user_id] = session
Store(user_id, session) ==
    [v \in (DOMAIN sessions) \cup {user_id} |->
        IF v = user_id THEN session ELSE sessions[v]]

\* A bug get-or-create could have: a new session is installed for a known
\* user too.
_session_always_new(user_id) == Store(user_id, _new_session)

\* _session: get-or-create.  The value is the sessions dict afterwards; the
\* session returned is its entry for user_id.
_session(user_id) ==
    IF user_id \in DOMAIN sessions THEN sessions ELSE Store(user_id, _new_session)

\* A bug _is_setup_complete could have: the faculty is not looked at.
_is_setup_complete_university_only(user_id) ==
    /\ user_id \in DOMAIN sessions
    /\ Truthy(sessions[user_id].university_id)

\* A bug _is_setup_complete could have: "or" where the code says "and".
_is_setup_complete_either(user_id) ==
    /\ user_id \in DOMAIN sessions
    /\ \/ Truthy(sessions[user_id].university_id)
       \/ Truthy(sessions[user_id].faculty_id)

\* A bug _is_setup_complete could have: the department is required too.
_is_setup_complete_with_department(user_id) ==
    /\ user_id \in DOMAIN sessions
    /\ Truthy(sessions[user_id].university_id)
    /\ Truthy(sessions[user_id].faculty_id)
    /\ Truthy(sessions[user_id].department_id)

_is_setup_complete(user_id) ==
    /\ user_id \in DOMAIN sessions
    /\ Truthy(sessions[user_id].university_id)
    /\ Truthy(sessions[user_id].faculty_id)

\* The last n elements of a sequence: history[-n:]
LastN(h, n) == IF Len(h) <= n THEN h ELSE SubSeq(h, Len(h) - n + 1, Len(h))

\* A bug _append_history could have: the cap is compared off by one.
_append_history_late_cap(history, role, content) ==
    LET pushed == Append(history, [role |-> role, content |-> content])
    IN  IF Len(pushed) > MAX_HISTORY_MESSAGES + 1
        THEN LastN(pushed, MAX_HISTORY_MESSAGES)
        ELSE pushed

\* A bug _append_history could have: history[:MAX] keeps the oldest turns.
_append_history_keep_oldest(history, role, content) ==
    LET pushed == Append(history, [role |-> role, content |-> content])
    IN  IF Len(pushed) > MAX_HISTORY_MESSAGES
        THEN SubSeq(pushed, 1, MAX_HISTORY_MESSAGES)
        ELSE pushed

\* _append_history on a history list: push, then keep the newest
\* MAX_HISTORY_MESSAGES turns.
_append_history(history, role, content) ==
    LET pushed == Append(history, [role |-> role, content |-> content])
    IN  IF Len(pushed) > MAX_HISTORY_MESSAGES
        THEN LastN(pushed, MAX_HISTORY_MESSAGES)
        ELSE pushed

\* The generative collaborator's answer to message n (opaque text).
generate_chat_response(n) == 100 + n

\* given is the history a generative call of the event was handed.
Event(kind, user, arg, fault, calls, reply) ==
    [kind |-> kind, user |-> user, arg |-> arg, fault |-> fault,
     calls |-> calls, reply |-> reply, given |-> <<>>]

\* The messages accepted so far, all users together.
RECURSIVE SumSent(_)
SumSent(S) ==
    IF S = {} THEN 0
    ELSE LET v == CHOOSE v \in S : TRUE IN sent[v] + SumSent(S \ {v})

SentTotal == SumSent(Users)

\* No helper was applied.
NoCall == [fn |-> "none"]

Init ==
    /\ sessions = << >>
    /\ log = [u \in Users |-> <<>>]
    /\ sent = [u \in Users |-> 0]
    /\ last = Event("none", 0, 0, "none", {}, "none")
    /\ inflight = {}
    /\ call = NoCall

\* A bug /start could have: no try/except around the directory query, so
\* its failure escapes the handler.
start_command_no_except(u, dbOk) ==
    /\ sessions' = Store(u, _new_session)
    /\ log' = [log EXCEPT ![u] = <<>>]
    /\ last' = Event("start", u, 0, IF dbOk THEN "none" ELSE "directory", {},
                     IF ~dbOk THEN "unhandled_exception"
                     ELSE IF ActiveUniversities = {} THEN "no_universities"
                     ELSE "choose_university")
    /\ UNCHANGED sent
    /\ UNCHANGED aux

\* --------------------------------------------------------------- actions
\* /start: a fresh session, then the university keyboard (a directory query
\* that may fail).
start_command(u, dbOk) ==
    /\ sessions' = Store(u, _new_session)
    /\ log' = [log EXCEPT ![u] = <<>>]
    /\ last' = Event("start", u, 0, IF dbOk THEN "none" ELSE "directory", {},
                     IF ~dbOk THEN "error"
                     ELSE IF ActiveUniversities = {} THEN "no_universities"
                     ELSE "choose_university")
    /\ UNCHANGED sent
    /\ UNCHANGED aux

\* A bug /reset could have: the bindings are cleared, the history is kept.
reset_command_keep_history(u) ==
    /\ sessions' = Store(u, IF u \in DOMAIN sessions
                            THEN [_new_session EXCEPT !.history = sessions[u].history]
                            ELSE _new_session)
    /\ log' = [log EXCEPT ![u] = <<>>]
    /\ last' = Event("reset", u, 0, "none", {}, "session_reset")
    /\ UNCHANGED sent
    /\ UNCHANGED aux

\* /reset: farewell summary, then a fresh session.
reset_command(u) ==
    /\ sessions' = Store(u, _new_session)
    /\ log' = [log EXCEPT ![u] = <<>>]
    /\ last' = Event("reset", u, 0, "none", {}, "session_reset")
    /\ UNCHANGED sent
    /\ UNCHANGED aux

\* Callback uni_<id>: look the university up, bind it, then offer its
\* faculties.  fault names the directory call that raises: "lookup" is
\* University.query.get, "children" is _build_faculty_keyboard.
_handle_university_selected(u, university_id, fault) ==
    IF fault = "lookup"
    THEN /\ last' = Event(CALLBACK_UNI, u, university_id, "lookup", {}, "error")
         /\ UNCHANGED <<sessions, log, sent>>
    ELSE IF ~UniversityFound(university_id)
    THEN /\ last' = Event(CALLBACK_UNI, u, university_id, "none", {}, "not_found")
         /\ UNCHANGED <<sessions, log, sent>>
    ELSE IF u \notin DOMAIN sessions
    THEN \* sessions[user_id] raises KeyError, caught by the handler
         /\ last' = Event(CALLBACK_UNI, u, university_id, "no_session", {}, "error")
         /\ UNCHANGED <<sessions, log, sent>>
    ELSE LET bound == [sessions[u] EXCEPT
                          !.university_id = university_id,
                          !.university_name = UniversityTable[university_id].name]
         IN  IF fault = "children"
             THEN /\ sessions' = Store(u, bound)
                  /\ last' = Event(CALLBACK_UNI, u, university_id, "children", {}, "error")
                  /\ UNCHANGED <<log, sent>>
             ELSE IF ActiveFaculties(university_id) = {}
             THEN /\ sessions' = Store(u, [bound EXCEPT !.faculty_id = None,
                                                        !.faculty_name = "N/A"])
                  /\ last' = Event(CALLBACK_UNI, u, university_id, "none", {},
                                   "university_selected_no_faculties")
                  /\ UNCHANGED <<log, sent>>
             ELSE /\ sessions' = Store(u, bound)
                  /\ last' = Event(CALLBACK_UNI, u, university_id, "none", {},
                                   "choose_faculty")
                  /\ UNCHANGED <<log, sent>>

\* Callback fac_<id>: look the faculty up, bind it, then offer its
\* departments.
_handle_faculty_selected(u, faculty_id, fault) ==
    IF fault = "lookup"
    THEN /\ last' = Event(CALLBACK_FAC, u, faculty_id, "lookup", {}, "error")
         /\ UNCHANGED <<sessions, log, sent>>
    ELSE IF ~FacultyFound(faculty_id)
    THEN /\ last' = Event(CALLBACK_FAC, u, faculty_id, "none", {}, "not_found")
         /\ UNCHANGED <<sessions, log, sent>>
    ELSE IF u \notin DOMAIN sessions
    THEN /\ last' = Event(CALLBACK_FAC, u, faculty_id, "no_session", {}, "error")
         /\ UNCHANGED <<sessions, log, sent>>
    ELSE LET bound == [sessions[u] EXCEPT
                          !.faculty_id = faculty_id,
                          !.faculty_name = FacultyTable[faculty_id].name]
         IN  IF fault = "children"
             THEN /\ sessions' = Store(u, bound)
                  /\ last' = Event(CALLBACK_FAC, u, faculty_id, "children", {}, "error")
                  /\ UNCHANGED <<log, sent>>
             ELSE IF ActiveDepartments(faculty_id) = {}
             THEN /\ sessions' = Store(u, [bound EXCEPT !.department_id = None,
                                                        !.department_name = "N/A"])
                  /\ last' = Event(CALLBACK_FAC, u, faculty_id, "none", {},
                                   "faculty_selected_no_departments")
                  /\ UNCHANGED <<log, sent>>
             ELSE /\ sessions' = Store(u, bound)
                  /\ last' = Event(CALLBACK_FAC, u, faculty_id, "none", {},
                                   "choose_department")
                  /\ UNCHANGED <<log, sent>>

\* Callback dept_<id>: look the department up and bind it.
_handle_department_selected(u, department_id, fault) ==
    IF fault = "lookup"
    THEN /\ last' = Event(CALLBACK_DEPT, u, department_id, "lookup", {}, "error")
         /\ UNCHANGED <<sessions, log, sent>>
    ELSE IF ~DepartmentFound(department_id)
    THEN /\ last' = Event(CALLBACK_DEPT, u, department_id, "none", {}, "not_found")
         /\ UNCHANGED <<sessions, log, sent>>
    ELSE IF u \notin DOMAIN sessions
    THEN /\ last' = Event(CALLBACK_DEPT, u, department_id, "no_session", {}, "error")
         /\ UNCHANGED <<sessions, log, sent>>
    ELSE /\ sessions' = Store(u, [sessions[u] EXCEPT
                                     !.department_id = department_id,
                                     !.department_name = DepartmentTable[department_id].name])
         /\ last' = Event(CALLBACK_DEPT, u, department_id, "none", {}, "setup_complete")
         /\ UNCHANGED <<log, sent>>

\* A bug the skip button could have: skipping the department starts the
\* conversation over.
_handle_skip_department_new_history(u) ==
    IF u \notin DOMAIN sessions
    THEN /\ last' = Event(CALLBACK_SKIP, u, 0, "no_session", {}, "unhandled_exception")
         /\ UNCHANGED <<sessions, log, sent>>
    ELSE /\ sessions' = Store(u, [sessions[u] EXCEPT !.department_id = None,
                                                     !.department_name = NoneStr,
                                                     !.session_start = Now,
                                                     !.history = <<>>])
         /\ last' = Event(CALLBACK_SKIP, u, 0, "none", {}, "setup_complete_skipped")
         /\ UNCHANGED <<log, sent>>

\* Callback skip_dept: no try/except here, so the KeyError of a user without
\* a session leaves the handler and no reply is sent.
_handle_skip_department(u) ==
    IF u \notin DOMAIN sessions
    THEN /\ last' = Event(CALLBACK_SKIP, u, 0, "no_session", {}, "unhandled_exception")
         /\ UNCHANGED <<sessions, log, sent>>
    ELSE /\ sessions' = Store(u, [sessions[u] EXCEPT !.department_id = None,
                                                     !.department_name = NoneStr])
         /\ last' = Event(CALLBACK_SKIP, u, 0, "none", {}, "setup_complete_skipped")
         /\ UNCHANGED <<log, sent>>

\* A bug the callback router could have: data it does not recognize is
\* taken for the skip button.
_unknown_action_as_skip(u, prefix) ==
    /\ u \in DOMAIN sessions
    /\ sessions' = Store(u, [sessions[u] EXCEPT !.department_id = None,
                                                     !.department_name = NoneStr])
    /\ last' = Event(prefix, u, 0, "none", {}, "setup_complete_skipped")
    /\ UNCHANGED <<log, sent>>

\* The else branch of callback_router: data with none of the known prefixes.
_unknown_action(u, prefix) ==
    /\ last' = Event(prefix, u, 0, "none", {}, "unknown_action")
    /\ UNCHANGED <<sessions, log, sent>>

\* The data of a callback query: "<prefix>_<id>", "skip_dept", or anything else.
CallbackData ==
    {[prefix |-> CALLBACK_UNI, arg |-> i] : i \in UniIds}
    \cup {[prefix |-> CALLBACK_FAC, arg |-> i] : i \in FacIds}
    \cup {[prefix |-> CALLBACK_DEPT, arg |-> i] : i \in DeptIds}
    \cup {[prefix |-> CALLBACK_SKIP, arg |-> 0], [prefix |-> "other", arg |-> 0]}

Faults == {"none", "lookup", "children"}

callback_router(u, data, fault) ==
    \/ /\ data.prefix = CALLBACK_UNI
       /\ _handle_university_selected(u, data.arg, fault)
       /\ UNCHANGED aux
    \/ /\ data.prefix = CALLBACK_FAC
       /\ _handle_faculty_selected(u, data.arg, fault)
       /\ UNCHANGED aux
    \/ /\ data.prefix = CALLBACK_DEPT
       /\ fault # "children"
       /\ _handle_department_selected(u, data.arg, fault)
       /\ UNCHANGED aux
    \/ /\ data.prefix = CALLBACK_SKIP
       /\ fault = "none"
       /\ _handle_skip_department(u)
       /\ UNCHANGED aux
    \/ /\ data.prefix \notin {CALLBACK_UNI, CALLBACK_FAC, CALLBACK_DEPT, CALLBACK_SKIP}
       /\ fault = "none"
       /\ _unknown_action(u, data.prefix)
       /\ UNCHANGED aux

\* /help: the session summary, read through sessions.get.
help_command(u) ==
    /\ last' = Event("help", u, 0, "none", {}, "help")
    /\ UNCHANGED <<sessions, log, sent>>
    /\ UNCHANGED aux

\* A bug /status could have: the session is read through _session, which
\* creates one for a user who has none.
status_command_get_or_create(u) ==
    /\ sessions' = _session(u)
    /\ last' = Event("status", u, 0, "none", {},
                     IF u \notin DOMAIN sessions \/ ~Truthy(sessions[u].university_id)
                     THEN "no_active_session" ELSE "session_status")
    /\ UNCHANGED <<log, sent>>
    /\ UNCHANGED aux

\* /status
status_command(u) ==
    /\ last' = Event("status", u, 0, "none", {},
                     IF u \notin DOMAIN sessions \/ ~Truthy(sessions[u].university_id)
                     THEN "no_active_session" ELSE "session_status")
    /\ UNCHANGED <<sessions, log, sent>>
    /\ UNCHANGED aux

\* A bug handle_message could have: the user turn is never recorded, only
\* the answer is.
_exchange_drop_user_turn(history, text) ==
    [given   |-> history,
     history |-> _append_history(history, "assistant",
                                 generate_chat_response(text))]

\* A bug handle_message could have: the assistant turn is recorded before
\* the collaborator has answered, so a failed call leaves it behind.
_exchange_answer_first(history, text) ==
    LET both == _append_history(_append_history(history, "user", text),
                                "assistant", generate_chat_response(text))
    IN  [given |-> both, history |-> both]

\* A bug handle_message could have: the collaborator is called before the
\* user turn is recorded.
_exchange_generate_first(history, text) ==
    [given   |-> history,
     history |-> _append_history(_append_history(history, "user", text),
                                 "assistant", generate_chat_response(text))]

\* The accepted path of handle_message on a history list: record the user
\* turn, call the generative collaborator with the session's history, record
\* its answer.  given is the history the collaborator was called with.
_exchange(history, text) ==
    LET withUser == _append_history(history, "user", text)
    IN  [given   |-> withUser,
         history |-> _append_history(withUser, "assistant",
                                     generate_chat_response(text))]

\* A free-text message.  The text is the user's next message number.
\* fault names the collaborator that raises: "knowledge" is the context /
\* knowledge lookup, "generate" is generate_chat_response.
handle_message(u, fault, limit) ==
    LET text == sent[u] + 1 IN
    /\ UNCHANGED aux
    /\ IF ~_is_setup_complete(u)
       THEN /\ last' = Event("message", u, 0, "none", {}, "incomplete_selection")
            /\ UNCHANGED <<sessions, log, sent>>
       ELSE IF fault = "knowledge"
       THEN /\ last' = Event("message", u, 0, "knowledge", {"knowledge"}, "apology")
            /\ UNCHANGED <<sessions, log, sent>>
       ELSE
           /\ SentTotal < limit
           /\ sent' = [sent EXCEPT ![u] = text]
           /\ LET done == _exchange(sessions[u].history, text)
              IN  IF fault = "generate"
                  THEN /\ sessions' = Store(u, [sessions[u] EXCEPT
                                                   !.history = done.given])
                       /\ log' = [log EXCEPT ![u] =
                                     Append(@, [role |-> "user", content |-> text])]
                       /\ last' = [Event("message", u, text, "generate",
                                         {"knowledge", "generate"}, "apology")
                                      EXCEPT !.given = done.given]
                  ELSE /\ sessions' = Store(u, [sessions[u] EXCEPT
                                                   !.history = done.history])
                       /\ log' = [log EXCEPT ![u] =
                                     Append(Append(@, [role |-> "user", content |-> text]),
                                            [role |-> "assistant",
                                             content |-> generate_chat_response(text)])]
                       /\ last' = [Event("message", u, text, "none",
                                         {"knowledge", "generate"}, "ai_response")
                                      EXCEPT !.given = done.given]

MessageFaults == {"none", "knowledge", "generate"}

\* ------------------------------------------------------- specifications
\* One user, every callback id, conversations long enough to pass the
\* history cap.
Next ==
    \/ \E dbOk \in BOOLEAN : start_command(1, dbOk)
    \/ reset_command(1)
    \/ help_command(1)
    \/ status_command(1)
    \/ \E data \in CallbackData, fault \in Faults : callback_router(1, data, fault)
    \/ \E fault \in MessageFaults : handle_message(1, fault, MaxMsgs)

Spec == Init /\ [][Next]_vars

\* The buttons of the keyboards the bot builds from the directory (active
\* entities only), plus an unrecognized callback.
OfferedCallbackData ==
    {d \in CallbackData :
        \/ d.prefix = CALLBACK_UNI /\ UniversityFound(d.arg)
        \/ d.prefix = CALLBACK_FAC /\ FacultyFound(d.arg)
        \/ d.prefix = CALLBACK_DEPT /\ DepartmentFound(d.arg)
        \/ d.prefix \in {CALLBACK_SKIP, "other"}}

\* Several users, short conversations, the offered buttons only.
NextUsers ==
    \/ \E u \in Users, dbOk \in BOOLEAN : start_command(u, dbOk)
    \/ \E u \in Users : reset_command(u)
    \/ \E u \in Users : help_command(u)
    \/ \E u \in Users : status_command(u)
    \/ \E u \in Users, data \in OfferedCallbackData, fault \in Faults :
          callback_router(u, data, fault)
    \/ \E u \in Users, fault \in MessageFaults : handle_message(u, fault, MaxUsersMsgs)

SpecUsers == Init /\ [][NextUsers]_vars

\* ------------------------------------------------- overlapping dispatches
\* The webhook (src/app.py) runs every update in its own request thread with
\* its own event loop, and nothing locks the sessions dict: the statements of
\* two handle_message dispatches can interleave.  A dispatch in flight is a
\* record: its user, its text, the statement it will run next (pc), the list
\* object its _append_history call holds in the local variable history
\* (alias: it is still the list the session refers to; otherwise list is the
\* content of the list the session referred to before another dispatch
\* replaced it), the session dict its local variable s holds (alias: it is
\* still sessions[user_id]; otherwise list is the history of the dict that a
\* restart replaced), the session as it was when the dispatch began (base)
\* and the users that had a dispatch in flight at that moment (peers).

\* The most dispatches of one user that overlap in the same-user specification.
MaxOverlap == 2

\* Accepted free-text messages in the same-user specification.
MaxRaceMsgs == 3

\* Accepted free-text messages, all users together, in the parallel-users
\* specification.
MaxParallelMsgs == 2

Alias == [alias |-> TRUE, list |-> <<>>]

InFlightOf(u) == {d \in inflight : d.user = u}

Idle(u) == InFlightOf(u) = {}

Turn(role, content) == [role |-> role, content |-> content]

\* handle_message up to the knowledge lookup: the guard, s = _session(user_id)
\* and the reads of the knowledge collaborator.
message_begin(u, fault, overlap, limit) ==
    LET text == sent[u] + 1 IN
    /\ Cardinality(InFlightOf(u)) < overlap
    /\ UNCHANGED call
    /\ IF ~_is_setup_complete(u)
       THEN /\ last' = Event("message", u, 0, "none", {}, "incomplete_selection")
            /\ UNCHANGED <<sessions, log, sent, inflight>>
       ELSE IF fault = "knowledge"
       THEN /\ last' = Event("message", u, 0, "knowledge", {"knowledge"}, "apology")
            /\ UNCHANGED <<sessions, log, sent, inflight>>
       ELSE /\ fault = "none"
            /\ SentTotal < limit
            /\ sent' = [sent EXCEPT ![u] = text]
            /\ inflight' = inflight \cup
                   {[user |-> u, text |-> text, pc |-> "user_append",
                     local |-> Alias, s |-> Alias, base |-> sessions[u],
                     peers |-> {e.user : e \in inflight}]}
            /\ last' = Event("dispatch", u, text, "none", {"knowledge"}, "none")
            /\ UNCHANGED <<sessions, log>>

\* The first two statements of _append_history: history is the session's
\* list, and the turn is appended to it in place.
AppendInPlace(d, turn, pc) ==
    /\ sessions' = Store(d.user, [sessions[d.user] EXCEPT
                                     !.history = Append(@, turn)])
    /\ log' = [log EXCEPT ![d.user] = Append(@, turn)]
    /\ inflight' = (inflight \ {d}) \cup {[d EXCEPT !.pc = pc, !.local = Alias]}

\* s["history"] of dispatch d.
HeldHistory(d) == IF d.s.alias THEN sessions[d.user].history ELSE d.s.list

\* The list the local variable history of dispatch d refers to.
LocalList(d) == IF d.local.alias THEN sessions[d.user].history ELSE d.local.list

\* The dispatches left in flight after d replaced the session's list: those of
\* the same user that hold the replaced list keep its content.
Detached(d, rest) ==
    {IF e.user = d.user /\ e.pc \in {"user_cap", "assistant_cap"} /\ e.local.alias
     THEN [e EXCEPT !.local = [alias |-> FALSE, list |-> sessions[d.user].history]]
     ELSE e : e \in rest}

\* The last two statements of _append_history: a list longer than the cap is
\* replaced by a new list of its newest entries.  rest is the set of the
\* other dispatches that stay in flight, next is d afterwards ({} when d ends).
CapHistory(d, rest, next) ==
    IF Len(LocalList(d)) > MAX_HISTORY_MESSAGES
    THEN /\ sessions' = Store(d.user, [sessions[d.user] EXCEPT
                            !.history = LastN(LocalList(d), MAX_HISTORY_MESSAGES)])
         /\ inflight' = Detached(d, rest) \cup next
    ELSE /\ inflight' = rest \cup next
         /\ UNCHANGED sessions

\* _append_history(user_id, "user", user_message), the append.
message_user_append(d) ==
    /\ d.pc = "user_append"
    /\ AppendInPlace(d, Turn("user", d.text), "user_cap")
    /\ last' = Event("dispatch", d.user, d.text, "none", {"knowledge"}, "none")
    /\ UNCHANGED <<sent, call>>

\* _append_history(user_id, "user", user_message), the cap.
message_user_cap(d) ==
    /\ d.pc = "user_cap"
    /\ CapHistory(d, inflight \ {d}, {[d EXCEPT !.pc = "generate", !.local = Alias]})
    /\ last' = Event("dispatch", d.user, d.text, "none", {"knowledge"}, "none")
    /\ UNCHANGED <<log, sent, call>>

\* A bug the dispatch could have: the answer is recorded for the user of the
\* event handled last instead of the user of this dispatch.
message_generate_last_user(d, fault) ==
    /\ d.pc = "generate"
    /\ fault = "none"
    /\ last.user \in DOMAIN sessions
    /\ sessions' = Store(last.user, [sessions[last.user] EXCEPT
                       !.history = Append(@, Turn("assistant",
                                                  generate_chat_response(d.text)))])
    /\ log' = [log EXCEPT ![d.user] =
                  Append(@, Turn("assistant", generate_chat_response(d.text)))]
    /\ inflight' = (inflight \ {d}) \cup {[d EXCEPT !.pc = "assistant_cap"]}
    /\ last' = [Event("dispatch", d.user, d.text, "none",
                      {"knowledge", "generate"}, "none")
                   EXCEPT !.given = HeldHistory(d)]
    /\ UNCHANGED <<sent, call>>

\* generate_chat_response(s["history"], ...) and, when it returns, the append
\* of _append_history(user_id, "assistant", ai_response); when it raises, the
\* apology.
message_generate(d, fault) ==
    /\ d.pc = "generate"
    /\ IF fault = "generate"
       THEN /\ inflight' = inflight \ {d}
            /\ last' = [Event("message", d.user, d.text, "generate",
                              {"knowledge", "generate"}, "apology")
                           EXCEPT !.given = HeldHistory(d)]
            /\ UNCHANGED <<sessions, log>>
       ELSE /\ fault = "none"
            /\ AppendInPlace(d, Turn("assistant", generate_chat_response(d.text)),
                             "assistant_cap")
            /\ last' = [Event("dispatch", d.user, d.text, "none",
                              {"knowledge", "generate"}, "none")
                           EXCEPT !.given = HeldHistory(d)]
    /\ UNCHANGED <<sent, call>>

\* _append_history(user_id, "assistant", ai_response), the cap, and the reply.
message_finish(d) ==
    /\ d.pc = "assistant_cap"
    /\ CapHistory(d, inflight \ {d}, {})
    /\ last' = Event("message", d.user, d.text, "none",
                     {"knowledge", "generate"}, "ai_response")
    /\ UNCHANGED <<log, sent, call>>

\* Two users in parallel, at most one dispatch of each user at a time; the
\* events of the selection flow come for a user with no dispatch in flight.
NextParallel ==
    \/ \E u \in Users : Idle(u) /\ start_command(u, TRUE)
    \/ \E u \in Users : Idle(u) /\ reset_command(u)
    \/ \E u \in Users, data \in OfferedCallbackData :
          Idle(u) /\ callback_router(u, data, "none")
    \/ \E u \in Users, fault \in {"none", "knowledge"} :
          message_begin(u, fault, 1, MaxParallelMsgs)
    \/ \E d \in inflight : message_user_append(d)
    \/ \E d \in inflight : message_user_cap(d)
    \/ \E d \in inflight, fault \in {"none", "generate"} : message_generate(d, fault)
    \/ \E d \in inflight : message_finish(d)

SpecParallel == Init /\ [][NextParallel]_vars

\* One user whose message dispatches overlap.
NextRace ==
    \/ Idle(1) /\ start_command(1, TRUE)
    \/ Idle(1) /\ reset_command(1)
    \/ \E data \in OfferedCallbackData : Idle(1) /\ callback_router(1, data, "none")
    \/ \E fault \in {"none", "knowledge"} :
          message_begin(1, fault, MaxOverlap, MaxRaceMsgs)
    \/ \E d \in inflight : message_user_append(d)
    \/ \E d \in inflight : message_user_cap(d)
    \/ \E d \in inflight, fault \in {"none", "generate"} : message_generate(d, fault)
    \/ \E d \in inflight : message_finish(d)

SpecRace == Init /\ [][NextRace]_vars

\* ------------------------------------------- a restart during a dispatch
\* Accepted free-text messages in the restart specification.
MaxRestartMsgs == 6

\* /reset handled while a message dispatch of the same user is in flight:
\* sessions[user_id] = _new_session() puts a new dict in place.  The dispatch
\* keeps the replaced dict in s, and inside _append_history it keeps the list
\* of the replaced dict in history.
reset_command_overlapping(u) ==
    /\ ~Idle(u)
    /\ sessions' = Store(u, _new_session)
    /\ log' = [log EXCEPT ![u] = <<>>]
    /\ last' = Event("reset", u, 0, "none", {}, "session_reset")
    /\ inflight' =
           {IF d.user = u
            THEN LET old == [alias |-> FALSE, list |-> sessions[u].history]
                 IN  [d EXCEPT !.s = IF @.alias THEN old ELSE @,
                               !.local = IF d.pc \in {"user_cap", "assistant_cap"}
                                            /\ @.alias
                                         THEN old ELSE @]
            ELSE d : d \in inflight}
    /\ UNCHANGED <<sent, call>>

\* One user, one message dispatch at a time, and /reset at any statement of
\* it; the events of the selection flow come when no dispatch is in flight.
NextRestart ==
    \/ Idle(1) /\ start_command(1, TRUE)
    \/ Idle(1) /\ reset_command(1)
    \/ \E data \in OfferedCallbackData : Idle(1) /\ callback_router(1, data, "none")
    \/ \E fault \in {"none", "knowledge"} :
          message_begin(1, fault, 1, MaxRestartMsgs)
    \/ \E d \in inflight : message_user_append(d)
    \/ \E d \in inflight : message_user_cap(d)
    \/ \E d \in inflight, fault \in {"none", "generate"} : message_generate(d, fault)
    \/ \E d \in inflight : message_finish(d)
    \/ reset_command_overlapping(1)

SpecRestart == Init /\ [][NextRestart]_vars

\* ------------------------------------------------------ the session store
\* _session(user_id) applied on its own, for any user id.
session_lookup(u) ==
    /\ sessions' = _session(u)
    /\ last' = Event("_session", u, 0, "none", {},
                     IF u \in DOMAIN sessions THEN "existing" ELSE "created")
    /\ UNCHANGED <<log, sent, aux>>

\* Two users, the selection flow and messages, and get-or-create at any time.
NextStore ==
    \/ \E u \in Users : start_command(u, TRUE)
    \/ \E u \in Users, data \in OfferedCallbackData : callback_router(u, data, "none")
    \/ \E u \in Users : handle_message(u, "none", MaxUsersMsgs)
    \/ \E u \in Users : session_lookup(u)

SpecStore == Init /\ [][NextStore]_vars

\* ---------------------------------------------------- knowledge context
\* Text is a sequence of character codes.  A knowledge snippet is a record
\* with a title and a content.

\* limit=3 of the search_knowledge call.
KNOWLEDGE_LIMIT == 3

\* The slice r['content'][:300].
CONTENT_CHARS == 300

\* The most knowledge rows that match a request.
MaxRows == 4

Min(a, b) == IF a < b THEN a ELSE b

\* Python's s[:n].
Prefix(s, n) == SubSeq(s, 1, Min(n, Len(s)))

\* A text of n lowercase letters.
Letters(n) == [i \in 1..n |-> 97 + (i % 26)]

Snippets ==
    LET \* "T1", "T2".
        Titles == {<<84, 49>>, <<84, 50>>}
        \* Contents that are empty, exactly as long as the slice, and longer.
        Contents == {Letters(0), Letters(CONTENT_CHARS), Letters(CONTENT_CHARS + 1)}
    IN  {[title |-> t, content |-> c] : t \in Titles, c \in Contents}

\* The sequences over S of length 0..n.
RECURSIVE SeqsUpTo(_, _)
SeqsUpTo(S, n) ==
    IF n = 0 THEN {<<>>}
    ELSE LET shorter == SeqsUpTo(S, n - 1)
         IN  shorter \cup {Append(s, x) : s \in {t \in shorter : Len(t) = n - 1}, x \in S}

\* The knowledge collaborator: of the rows that match the request, in rank
\* order, the first limit ones.
search_knowledge(rows, limit) == Prefix(rows, limit)

\* A bug the context builder could have: the content is not cut.
Piece_whole_content(r) == <<45, 32>> \o r.title \o <<58, 32>> \o r.content

\* f"- {r['title']}: {r['content'][:300]}"
Piece(r) == <<45, 32>> \o r.title \o <<58, 32>> \o Prefix(r.content, CONTENT_CHARS)

\* "\n".join(pieces)
RECURSIVE JoinLines(_)
JoinLines(pieces) ==
    IF Len(pieces) = 1 THEN Piece(pieces[1])
    ELSE Piece(pieces[1]) \o <<10>> \o JoinLines(Tail(pieces))

\* knowledge_context of handle_message: None when the search returned
\* nothing, else the joined pieces.
knowledge_context(knowledge_results) ==
    IF knowledge_results = <<>>
    THEN [null |-> TRUE, text |-> <<>>]
    ELSE [null |-> FALSE, text |-> JoinLines(knowledge_results)]

\* A ready user sends a message; rows are the knowledge rows that match it.
InitKnowledge ==
    /\ sessions = << >>
    /\ log = [u \in Users |-> <<>>]
    /\ sent = [u \in Users |-> 0]
    /\ last = Event("none", 0, 0, "none", {}, "none")
    /\ inflight = {}
    /\ call \in {[fn |-> "message", user_message |-> m, university_id |-> i, rows |-> r] :
                    m \in 1..2, i \in ActiveUniversities, r \in SeqsUpTo(Snippets, MaxRows)}

\* The knowledge part of handle_message: the search request, the context
\* block built from its results, and the block handed to the generator.
knowledge_lookup ==
    /\ call.fn = "message"
    /\ LET request == [text |-> call.user_message,
                       university_id |-> call.university_id,
                       limit |-> KNOWLEDGE_LIMIT]
           knowledge_results == search_knowledge(call.rows, request.limit)
       IN  call' = [fn |-> "knowledge_context",
                    user_message |-> call.user_message,
                    university_id |-> call.university_id,
                    request |-> request,
                    knowledge_results |-> knowledge_results,
                    passed |-> knowledge_context(knowledge_results)]
    /\ UNCHANGED <<sessions, log, sent, last, inflight>>

SpecKnowledge == InitKnowledge /\ [][knowledge_lookup]_vars

\* ------------------------------------------------- placeholder builder
\* (src/services/faq_service.py)  A text is a sequence of segments, "@"
\* being a segment of its own; the empty text is << >>.  A column of the
\* University row is a text or None.

NoText == [null |-> TRUE, text |-> <<>>]

Text(t) == [null |-> FALSE, text |-> t]

\* Python's "x or default" on a nullable text: None and '' are falsy.
OrElse(x, default) == IF x.null \/ x.text = <<>> THEN default ELSE x.text

\* A bug the builder could have: no email is seen to hold an "@".
HasAt_never(email) == FALSE

\* '@' in email
HasAt(email) == \E i \in 1..Len(email) : email[i] = "@"

\* email.split('@')[-1]: what follows the last "@".
RECURSIVE AfterLastAt(_)
AfterLastAt(email) ==
    IF ~HasAt(email) THEN email
    ELSE LET i == CHOOSE i \in 1..Len(email) : email[i] = "@"
         IN  AfterLastAt(SubSeq(email, i + 1, Len(email)))

\* The tokens of the placeholder map.
Tokens ==
    {"university_name", "university_name_ar", "university_name_fr",
     "city", "city_ar", "city_fr", "portal_url", "website",
     "email_general", "email_registrar", "email_finance", "email_it",
     "email_student", "email_financial_aid", "email_housing",
     "email_library", "email_academic", "phone_main", "address"}

\* The branch of build_placeholders for university is None.  The Arabic
\* values are written in Latin letters.
GenericPlaceholders ==
    [university_name     |-> <<"your university">>,
     university_name_ar  |-> <<"jami'atuk">>,
     university_name_fr  |-> <<"votre universite">>,
     city                |-> <<"your city">>,
     city_ar             |-> <<"madinatuk">>,
     city_fr             |-> <<"votre ville">>,
     portal_url          |-> <<"your student portal">>,
     website             |-> <<"the university website">>,
     email_general       |-> <<"info", "@", "university.dz">>,
     email_registrar     |-> <<"registrar", "@", "university.dz">>,
     email_finance       |-> <<"finance", "@", "university.dz">>,
     email_it            |-> <<"itsupport", "@", "university.dz">>,
     email_student       |-> <<"studentaffairs", "@", "university.dz">>,
     email_financial_aid |-> <<"financialaid", "@", "university.dz">>,
     email_housing       |-> <<"housing", "@", "university.dz">>,
     email_library       |-> <<"library", "@", "university.dz">>,
     email_academic      |-> <<"academic", "@", "university.dz">>,
     phone_main          |-> <<"the university main number">>,
     address             |-> <<"the university campus">>]

\* build_placeholders(university): snapshot.present is FALSE for None.
build_placeholders(snapshot) ==
    IF ~snapshot.present THEN GenericPlaceholders
    ELSE
    LET university == snapshot.row
        name    == OrElse(university.name, <<"your university">>)
        name_ar == OrElse(university.name_ar, <<"jami'atuk">>)
        city    == OrElse(university.city, <<>>)
        website == OrElse(university.website, <<"the university website">>)
        email   == OrElse(university.email, <<"info", "@", "university.dz">>)
        phone   == OrElse(university.phone, <<>>)
        domain  == IF HasAt(email) THEN AfterLastAt(email) ELSE <<"university.dz">>
        sub(prefix) == <<prefix, "@">> \o domain
        portal  == IF website # <<>> THEN website ELSE <<"the student portal">>
    IN  [university_name     |-> name,
         university_name_ar  |-> name_ar,
         university_name_fr  |-> name,
         city                |-> city,
         city_ar             |-> city,
         city_fr             |-> city,
         portal_url          |-> portal,
         website             |-> website,
         email_general       |-> email,
         email_registrar     |-> sub("registrar"),
         email_finance       |-> sub("finance"),
         email_it            |-> sub("itsupport"),
         email_student       |-> sub("studentaffairs"),
         email_financial_aid |-> sub("financialaid"),
         email_housing       |-> sub("housing"),
         email_library       |-> sub("library"),
         email_academic      |-> sub("academic"),
         phone_main          |-> IF phone # <<>> THEN phone
                                 ELSE <<"the university main number">>,
         address             |-> OrElse(university.address,
                                        <<"Campus of ">> \o name \o <<", ">> \o city)]

\* The University rows, and no row.
Snapshots ==
    LET \* A column value: None, the empty text, or the given text.
        Column(t) == {NoText, Text(<<>>), Text(t)}
        \* The values of the email column: with one "@", with none, ending in "@",
        \* with two.
        Emails ==
            {NoText, Text(<<>>), Text(<<"contact", "@", "univ-x.dz">>), Text(<<"contact">>),
             Text(<<"contact", "@">>), Text(<<"a", "@", "b", "@", "univ-x.dz">>)}
    IN  {[present |-> FALSE, row |-> <<>>]} \cup
        {[present |-> TRUE,
          row |-> [name |-> n, name_ar |-> a, city |-> c, website |-> w,
                   email |-> e, phone |-> p, address |-> d]] :
            n \in Column(<<"Univ X">>), a \in Column(<<"jami'at X">>),
            c \in Column(<<"Algiers">>), w \in Column(<<"https://univ-x.dz">>),
            e \in Emails, p \in Column(<<"+213 21 00 00 00">>),
            d \in Column(<<"1 Campus Road">>)}

InitPlaceholders ==
    /\ sessions = << >>
    /\ log = [u \in Users |-> <<>>]
    /\ sent = [u \in Users |-> 0]
    /\ last = Event("none", 0, 0, "none", {}, "none")
    /\ inflight = {}
    /\ call \in {[fn |-> "snapshot", university |-> s] : s \in Snapshots}

\* build_placeholders applied to the snapshot.
placeholders_built ==
    /\ call.fn = "snapshot"
    /\ call' = [fn |-> "build_placeholders", university |-> call.university,
                out |-> build_placeholders(call.university)]
    /\ UNCHANGED <<sessions, log, sent, last, inflight>>

SpecPlaceholders == InitPlaceholders /\ [][placeholders_built]_vars

\* ----------------------------------------------------- answer templates
\* An answer template is a text whose placeholder tokens are segments of
\* their own, "{portal_url}"; every other stretch of it is one segment.

\* '{' + key + '}'
Brace(key) == "{" \o key \o "}"

\* The keys of the placeholder dict in the order build_placeholders inserts
\* them, which is the order fill goes through them.
TokenOrder ==
    <<"university_name", "university_name_ar", "university_name_fr",
      "city", "city_ar", "city_fr", "portal_url", "website",
      "email_general", "email_registrar", "email_finance", "email_it",
      "email_student", "email_financial_aid", "email_housing",
      "email_library", "email_academic", "phone_main", "address">>

\* template.replace('{' + key + '}', val): every occurrence in the text as
\* it is before the call; what is put in is not looked at again.
RECURSIVE Replace(_, _, _)
Replace(template, token, val) ==
    IF template = <<>> THEN <<>>
    ELSE (IF Head(template) = token THEN val ELSE <<Head(template)>>)
         \o Replace(Tail(template), token, val)

\* The loop of fill from the i-th key of the dict on.
RECURSIVE fill_from(_, _, _)
fill_from(template, ph, i) ==
    IF i > Len(TokenOrder) THEN template
    ELSE fill_from(Replace(template, Brace(TokenOrder[i]), ph[TokenOrder[i]]),
                   ph, i + 1)

\* fill(template, ph)
fill(template, ph) == fill_from(template, ph, 1)

Languages == {"en", "ar", "fr"}

\* The token that names the university in the answers of a language.
NameToken(lang) ==
    IF lang = "ar" THEN "university_name_ar"
    ELSE IF lang = "fr" THEN "university_name_fr"
    ELSE "university_name"

\* The ids of the entries of _FAQS.
FaqIds == 1..22

\* The tokens of the answer of entry id in a language, in the order in
\* which the answer has them (the same in the three languages but for the
\* name token).
AnswerTokens(id, lang) ==
    CASE id \in {1, 2, 4, 5} -> <<NameToken(lang)>>
      [] id \in {3, 21}      -> <<>>
      [] id \in {6, 8}       -> <<"portal_url", "email_registrar">>
      [] id = 7              -> <<"portal_url">>
      [] id = 9              -> <<"portal_url", "email_finance">>
      [] id = 10             -> <<"portal_url", "email_finance", "phone_main">>
      [] id = 11             -> <<"email_academic">>
      [] id \in {12, 19}     -> <<"portal_url", "email_it">>
      [] id \in {13, 16}     -> <<"email_student">>
      [] id = 14             -> <<NameToken(lang), "portal_url">>
      [] id = 15             -> <<"portal_url", "email_library">>
      [] id = 17             -> <<"portal_url", "email_housing">>
      [] id = 18             -> <<"portal_url", "email_financial_aid">>
      [] id = 20             -> <<"portal_url", "email_academic">>
      [] id = 22             -> <<NameToken(lang), "address", "website",
                                  "email_general", "phone_main", "email_registrar",
                                  "email_finance", "email_it", "email_student",
                                  "email_financial_aid", "email_library">>

\* The text with the given tokens: wording, then each token followed by
\* wording.
RECURSIVE TemplateWith(_)
TemplateWith(tokens) ==
    IF tokens = <<>> THEN <<"wording">>
    ELSE <<"wording", Brace(Head(tokens))>> \o TemplateWith(Tail(tokens))

\* faq['answers'][lang] of entry id.
AnswerTemplate(id, lang) == TemplateWith(AnswerTokens(id, lang))

\* A University row with every column set.
FullRow ==
    [name |-> Text(<<"Univ X">>), name_ar |-> Text(<<"jami'at X">>),
     city |-> Text(<<"Algiers">>), website |-> Text(<<"https://univ-x.dz">>),
     email |-> Text(<<"contact", "@", "univ-x.dz">>),
     phone |-> Text(<<"+213 21 00 00 00">>), address |-> Text(<<"1 Campus Road">>)]

\* The snapshots answers are rendered for: none, a full row, a row of
\* None columns, and the rows with token-like text.
RenderSnapshots ==
    LET \* Rows of which one free-text column holds text in braces that is the name
        \* of a token.
        TokenLikeRows ==
            {[FullRow EXCEPT ![c] = Text(<<Brace(k)>>)] :
                c \in {"name", "name_ar", "city", "website", "phone", "address"},
                k \in Tokens}
    IN  {[present |-> FALSE, row |-> <<>>]}
        \cup {[present |-> TRUE, row |-> r] :
                r \in {FullRow, [c \in DOMAIN FullRow |-> NoText]} \cup TokenLikeRows}

InitFill ==
    /\ sessions = << >>
    /\ log = [u \in Users |-> <<>>]
    /\ sent = [u \in Users |-> 0]
    /\ last = Event("none", 0, 0, "none", {}, "none")
    /\ inflight = {}
    /\ call \in {[fn |-> "answer", id |-> i, lang |-> l, university |-> s] :
                    i \in FaqIds, l \in Languages, s \in RenderSnapshots}

\* The rendering of search_faq: the placeholders of the snapshot are
\* filled into the answer of the matched entry.
answer_filled ==
    /\ call.fn = "answer"
    /\ call' = [fn |-> "fill", id |-> call.id, lang |-> call.lang,
                university |-> call.university,
                out |-> fill(AnswerTemplate(call.id, call.lang),
                             build_placeholders(call.university))]
    /\ UNCHANGED <<sessions, log, sent, last, inflight>>

SpecFill == InitFill /\ [][answer_filled]_vars

\* ---------------------------------------------------- language detection
\* A query is a sequence of its whitespace-separated words; of a word the
\* detector sees how many characters the Arabic pattern finds in it
\* (arabic), how many the pattern of French accented letters finds
\* (markers), and how many matches of the French word list lie in it
\* (french: "puis-je" holds two).

\* The most words of a query.
MaxWords == 3

\* "exam", "bonjour", "puis-je", "frais-de-cours", "école", "où", a word with
\* one Arabic letter, an Arabic word, an Arabic word with an accented
\* letter.
WordKinds ==
    {[arabic |-> 0, markers |-> 0, french |-> 0],
     [arabic |-> 0, markers |-> 0, french |-> 1],
     [arabic |-> 0, markers |-> 0, french |-> 2],
     [arabic |-> 0, markers |-> 0, french |-> 3],
     [arabic |-> 0, markers |-> 1, french |-> 0],
     [arabic |-> 0, markers |-> 1, french |-> 1],
     [arabic |-> 1, markers |-> 0, french |-> 0],
     [arabic |-> 5, markers |-> 0, french |-> 0],
     [arabic |-> 2, markers |-> 1, french |-> 0]}

\* len(re.findall(pattern, text)) for the pattern counted in field.
RECURSIVE CountOf(_, _)
CountOf(text, field) ==
    IF text = <<>> THEN 0 ELSE Head(text)[field] + CountOf(Tail(text), field)

\* A bug the detector could have: the French test comes first.
detect_language_french_first(text) ==
    LET arabic_chars   == CountOf(text, "arabic")
        french_markers == CountOf(text, "markers")
        french_words   == CountOf(text, "french")
        total_words    == IF Len(text) > 1 THEN Len(text) ELSE 1
    IN  IF 100 * (french_markers + french_words) > 15 * total_words
           \/ french_words >= 2
        THEN "fr"
        ELSE IF arabic_chars > 1 THEN "ar"
        ELSE "en"

\* detect_language(text); the ratio test (m + w) / total > 0.15 is taken in
\* integers.
detect_language(text) ==
    LET arabic_chars   == CountOf(text, "arabic")
        french_markers == CountOf(text, "markers")
        french_words   == CountOf(text, "french")
        total_words    == IF Len(text) > 1 THEN Len(text) ELSE 1
    IN  IF arabic_chars > 1 THEN "ar"
        ELSE IF 100 * (french_markers + french_words) > 15 * total_words
                \/ french_words >= 2
        THEN "fr"
        ELSE "en"

InitLanguage ==
    /\ sessions = << >>
    /\ log = [u \in Users |-> <<>>]
    /\ sent = [u \in Users |-> 0]
    /\ last = Event("none", 0, 0, "none", {}, "none")
    /\ inflight = {}
    /\ call \in {[fn |-> "text", text |-> t] : t \in SeqsUpTo(WordKinds, MaxWords)}

\* detect_language applied to the text.
language_detected ==
    /\ call.fn = "text"
    /\ call' = [fn |-> "detect_language", text |-> call.text,
                out |-> detect_language(call.text)]
    /\ UNCHANGED <<sessions, log, sent, last, inflight>>

SpecLanguage == InitLanguage /\ [][language_detected]_vars

\* ------------------------------------------------------------ FAQ matcher
\* Scores are fractions [n, d].  A scored catalog is the catalog in its
\* order, every entry with the keyword score and the semantic score the
\* matcher computes for the query: [id, category, keyword, semantic].

\* The most entries of a scored catalog.
MaxEntries == 3

\* The largest top_k asked for.
MaxTopK == 4

Rat(n, d) == [n |-> n, d |-> d]

\* a >= b and a > b on fractions.
Geq(a, b) == a.n * b.d >= b.n * a.d

Gt(a, b) == a.n * b.d > b.n * a.d

\* The default threshold of find_best_match, 0.3.
BEST_THRESHOLD == Rat(3, 10)

\* The default threshold of find_multiple_matches, 0.25.
MULTIPLE_THRESHOLD == Rat(1, 4)

\* _keyword_score(query, faq) * 0.6 + _semantic_score(query, faq) * 0.4
CombinedScore(e) ==
    Rat(6 * e.keyword.n * e.semantic.d + 4 * e.semantic.n * e.keyword.d,
        10 * e.keyword.d * e.semantic.d)

\* round(score, 2), in hundredths; a score halfway between two hundredths
\* goes to the even one.
Round2(x) ==
    LET q == (100 * x.n) \div x.d
        r == (100 * x.n) % x.d
    IN  IF 2 * r > x.d THEN q + 1
        ELSE IF 2 * r < x.d THEN q
        ELSE IF q % 2 = 0 THEN q ELSE q + 1

\* The value None of find_best_match, as a record of the shape of a match.
NoMatch == [found |-> FALSE, faq |-> 0, confidence |-> 0, category |-> "none"]

\* {'faq': faq, 'confidence': round(score, 2), 'category': faq['category']}
MatchOf(e) ==
    [found |-> TRUE, faq |-> e.id, confidence |-> Round2(CombinedScore(e)),
     category |-> e.category]

\* The loop of find_best_match over the entries from i on: best is the index
\* of the best entry so far (0 for None), best_score its score.
RECURSIVE BestFrom(_, _, _, _)
BestFrom(scored, i, best, best_score) ==
    IF i > Len(scored) THEN [best |-> best, best_score |-> best_score]
    ELSE IF Gt(CombinedScore(scored[i]), best_score)
         THEN BestFrom(scored, i + 1, i, CombinedScore(scored[i]))
         ELSE BestFrom(scored, i + 1, best, best_score)

\* A bug find_best_match could have: the threshold is not applied.
find_best_match_no_threshold(scored, threshold) ==
    LET r == BestFrom(scored, 1, 0, Rat(0, 1))
    IN  IF r.best # 0 THEN MatchOf(scored[r.best]) ELSE NoMatch

\* find_best_match, from the scored catalog on.
find_best_match(scored, threshold) ==
    LET r == BestFrom(scored, 1, 0, Rat(0, 1))
    IN  IF Geq(r.best_score, threshold) THEN MatchOf(scored[r.best]) ELSE NoMatch

\* The loop of find_multiple_matches: the entries at or above the
\* threshold, in catalog order.
RECURSIVE MatchesFrom(_, _, _)
MatchesFrom(scored, i, threshold) ==
    IF i > Len(scored) THEN <<>>
    ELSE (IF Geq(CombinedScore(scored[i]), threshold)
          THEN <<MatchOf(scored[i])>> ELSE <<>>)
         \o MatchesFrom(scored, i + 1, threshold)

\* m is put into the sorted list after every entry whose confidence is not
\* below its own.
InsertDesc(sorted, m) ==
    LET before == {i \in 1..Len(sorted) : sorted[i].confidence >= m.confidence}
        at     == Cardinality(before)
    IN  SubSeq(sorted, 1, at) \o <<m>> \o SubSeq(sorted, at + 1, Len(sorted))

\* matches.sort(key=lambda x: x['confidence'], reverse=True): a stable sort.
RECURSIVE SortByConfidence(_)
SortByConfidence(matches) ==
    IF matches = <<>> THEN <<>>
    ELSE InsertDesc(SortByConfidence(SubSeq(matches, 1, Len(matches) - 1)),
                    matches[Len(matches)])

\* Python's s[:k], also for a negative k.
SliceTo(s, k) ==
    IF k >= 0 THEN Prefix(s, k)
    ELSE IF Len(s) + k > 0 THEN SubSeq(s, 1, Len(s) + k) ELSE <<>>

\* A bug find_multiple_matches could have: the matches are not sorted.
find_multiple_matches_unsorted(scored, top_k, threshold) ==
    SliceTo(MatchesFrom(scored, 1, threshold), top_k)

\* find_multiple_matches, from the scored catalog on.
find_multiple_matches(scored, top_k, threshold) ==
    SliceTo(SortByConfidence(MatchesFrom(scored, 1, threshold)), top_k)

\* The scored catalogs of n entries: ids 1..n in catalog order.
ScoredCatalogs(n) ==
    LET \* Score pairs (keyword, semantic) with combined scores 0, 0.15, 0.25,
        \* 0.2857, 0.29, 0.30, 0.40 (twice), 0.4857 and 1.
        ScorePairs ==
            {<<Rat(0, 1), Rat(0, 1)>>, <<Rat(1, 4), Rat(0, 1)>>, <<Rat(1, 4), Rat(1, 4)>>,
             <<Rat(1, 7), Rat(1, 2)>>, <<Rat(1, 4), Rat(7, 20)>>, <<Rat(1, 2), Rat(0, 1)>>,
             <<Rat(0, 1), Rat(1, 1)>>, <<Rat(1, 2), Rat(1, 4)>>, <<Rat(1, 7), Rat(1, 1)>>,
             <<Rat(1, 1), Rat(1, 1)>>}
    IN  {[i \in 1..n |-> [id |-> i,
                          category |-> IF i = 1 THEN "greeting" ELSE "registration",
                          keyword |-> p[i][1], semantic |-> p[i][2]]] :
            p \in [1..n -> ScorePairs]}

InitMatcher ==
    /\ sessions = << >>
    /\ log = [u \in Users |-> <<>>]
    /\ sent = [u \in Users |-> 0]
    /\ last = Event("none", 0, 0, "none", {}, "none")
    /\ inflight = {}
    /\ call \in {[fn |-> "query", faqs |-> c, top_k |-> k,
                  best |-> NoMatch, multiple |-> <<>>] :
                    c \in UNION {ScoredCatalogs(n) : n \in 0..MaxEntries},
                    k \in (0 - 1)..MaxTopK}

\* faq_matcher.find_best_match(query)
best_match_found ==
    /\ call.fn = "query"
    /\ call' = [call EXCEPT !.fn = "find_best_match",
                            !.best = find_best_match(call.faqs, BEST_THRESHOLD)]
    /\ UNCHANGED <<sessions, log, sent, last, inflight>>

\* faq_matcher.find_multiple_matches(query, top_k)
multiple_matches_found ==
    /\ call.fn = "query"
    /\ call' = [call EXCEPT !.fn = "find_multiple_matches",
                            !.multiple = find_multiple_matches(call.faqs, call.top_k,
                                                               MULTIPLE_THRESHOLD)]
    /\ UNCHANGED <<sessions, log, sent, last, inflight>>

NextMatcher == best_match_found \/ multiple_matches_found

SpecMatcher == InitMatcher /\ [][NextMatcher]_vars

\* A bug the matcher could have: find_multiple_matches sorts the catalog
\* itself, by score, instead of its list of matches.
RECURSIVE faqs_after_call_sorted_in_place(_)
faqs_after_call_sorted_in_place(scored) ==
    IF scored = <<>> THEN <<>>
    ELSE LET rest == faqs_after_call_sorted_in_place(SubSeq(scored, 1, Len(scored) - 1))
             e    == scored[Len(scored)]
             at   == Cardinality({i \in 1..Len(rest) :
                                     Geq(CombinedScore(rest[i]), CombinedScore(e))})
         IN  SubSeq(rest, 1, at) \o <<e>> \o SubSeq(rest, at + 1, Len(rest))

\* self.faqs after a call of find_best_match or find_multiple_matches: both
\* only read it.
faqs_after_call(scored) == scored

\* The matcher singleton with its catalog, before any call.
InitMatcherCalls ==
    /\ sessions = << >>
    /\ log = [u \in Users |-> <<>>]
    /\ sent = [u \in Users |-> 0]
    /\ last = Event("none", 0, 0, "none", {}, "none")
    /\ inflight = {}
    /\ call \in {[fn |-> "faq_matcher", faqs |-> c, top_k |-> 0,
                  best |-> NoMatch, multiple |-> <<>>,
                  has_best |-> FALSE, has_multiple |-> FALSE] :
                    c \in UNION {ScoredCatalogs(n) : n \in 0..MaxEntries}}

\* One more call of find_best_match with the same query.
best_match_called ==
    /\ call' = [call EXCEPT !.fn = "find_best_match",
                            !.best = find_best_match(call.faqs, BEST_THRESHOLD),
                            !.has_best = TRUE,
                            !.faqs = faqs_after_call(call.faqs)]
    /\ UNCHANGED <<sessions, log, sent, last, inflight>>

\* One more call of find_multiple_matches with the same query.
multiple_matches_called(top_k) ==
    /\ call' = [call EXCEPT !.fn = "find_multiple_matches",
                            !.top_k = top_k,
                            !.multiple = find_multiple_matches(call.faqs, top_k,
                                                               MULTIPLE_THRESHOLD),
                            !.has_multiple = TRUE,
                            !.faqs = faqs_after_call(call.faqs)]
    /\ UNCHANGED <<sessions, log, sent, last, inflight>>

\* Calls of the two methods, any number of times in any order.
NextMatcherCalls ==
    \/ best_match_called
    \/ \E top_k \in 0..MaxTopK : multiple_matches_called(top_k)

SpecMatcherCalls == InitMatcherCalls /\ [][NextMatcherCalls]_vars

\* ---------------------------------------------------------- search_faq
\* The answers dicts of an entry: the three languages; English only;
\* English with an empty French answer; Arabic only.
AnswerDicts ==
    LET \* The answer of an entry in a language: a text that begins with the
        \* language and greets with the name token of that language.
        AnswerIn(lang) == <<lang, Brace(NameToken(lang)), "wording">>
    IN  {[l \in Languages |-> AnswerIn(l)],
         [l \in {"en"} |-> AnswerIn(l)],
         [l \in {"en", "fr"} |-> IF l = "fr" THEN <<>> ELSE AnswerIn(l)],
         [l \in {"ar"} |-> AnswerIn(l)]}

\* A bug search_faq could have: no fallback to the English answer.
RawAnswer_no_fallback(answers, lang) ==
    IF lang \in DOMAIN answers THEN answers[lang] ELSE <<>>

\* answers.get(lang) or answers.get('en', '')
RawAnswer(answers, lang) ==
    IF lang \in DOMAIN answers /\ answers[lang] # <<>> THEN answers[lang]
    ELSE IF "en" \in DOMAIN answers THEN answers["en"]
    ELSE <<>>

\* search_faq(query, university): text is the query as the language
\* detector sees it, scored is the catalog as the matcher scores it for the
\* query.
search_faq(text, scored, university) ==
    LET lang  == detect_language(text)
        match == find_best_match(scored, BEST_THRESHOLD)
    IN  IF match.found
        THEN LET faq == scored[match.faq]
                 raw_answer == RawAnswer(faq.answers, lang)
                 ph == build_placeholders(university)
             IN  [found      |-> TRUE,
                  answer     |-> fill(raw_answer, ph),
                  question   |-> faq.question,
                  confidence |-> match.confidence,
                  category   |-> match.category,
                  language   |-> lang]
        ELSE [found    |-> FALSE,
              language |-> lang,
              message  |-> "No FAQ match found. AI will respond."]

\* The catalogs of n entries search_faq is applied to.
SearchCatalogs(n) ==
    LET \* Score pairs with combined scores 0.2857, 0.30 and 0.4857.
        SearchScorePairs ==
            {<<Rat(1, 7), Rat(1, 2)>>, <<Rat(1, 2), Rat(0, 1)>>, <<Rat(1, 7), Rat(1, 1)>>}
    IN  {[i \in 1..n |-> [id |-> i,
                          category |-> IF i = 1 THEN "greeting" ELSE "registration",
                          question |-> IF i = 1 THEN "Hello" ELSE "How do I register?",
                          keyword |-> p[i][1], semantic |-> p[i][2],
                          answers |-> a[i]]] :
            p \in [1..n -> SearchScorePairs], a \in [1..n -> AnswerDicts]}

InitSearch ==
    LET \* An English, a French and an Arabic query, and the empty query.
        SearchTexts ==
            {<<>>,
             <<[arabic |-> 0, markers |-> 0, french |-> 0]>>,
             <<[arabic |-> 0, markers |-> 0, french |-> 2]>>,
             <<[arabic |-> 5, markers |-> 0, french |-> 0]>>}
    IN  /\ sessions = << >>
        /\ log = [u \in Users |-> <<>>]
        /\ sent = [u \in Users |-> 0]
        /\ last = Event("none", 0, 0, "none", {}, "none")
        /\ inflight = {}
        /\ call \in {[fn |-> "query", text |-> t, faqs |-> c, university |-> s] :
                        t \in SearchTexts,
                        c \in UNION {SearchCatalogs(n) : n \in 0..MaxEntries},
                        s \in {[present |-> FALSE, row |-> <<>>],
                               [present |-> TRUE, row |-> FullRow]}}

\* search_faq applied to the query.
faq_searched ==
    /\ call.fn = "query"
    /\ call' = [fn |-> "search_faq", text |-> call.text, faqs |-> call.faqs,
                university |-> call.university,
                out |-> search_faq(call.text, call.faqs, call.university)]
    /\ UNCHANGED <<sessions, log, sent, last, inflight>>

SpecSearch == InitSearch /\ [][faq_searched]_vars

\* ------------------------------------------------------------ query text
\* The matcher and the detector on the characters of a query.  A text is
\* the sequence of its characters; a character outside ASCII is written by
\* its code point, "U+0645".

\* The code points of the characters the texts below are written in.
CodePoint ==
    " " :> 32 @@ "!" :> 33 @@ "'" :> 39 @@ "," :> 44 @@ "-" :> 45 @@
    "/" :> 47 @@ "?" :> 63 @@ "A" :> 65 @@ "B" :> 66 @@ "C" :> 67 @@
    "D" :> 68 @@ "E" :> 69 @@ "F" :> 70 @@ "G" :> 71 @@ "H" :> 72 @@
    "I" :> 73 @@ "J" :> 74 @@ "K" :> 75 @@ "L" :> 76 @@ "M" :> 77 @@
    "N" :> 78 @@ "O" :> 79 @@ "P" :> 80 @@ "Q" :> 81 @@ "R" :> 82 @@
    "S" :> 83 @@ "T" :> 84 @@ "U" :> 85 @@ "V" :> 86 @@ "W" :> 87 @@
    "X" :> 88 @@ "Y" :> 89 @@ "Z" :> 90 @@ "a" :> 97 @@ "b" :> 98 @@
    "c" :> 99 @@ "d" :> 100 @@ "e" :> 101 @@ "f" :> 102 @@ "g" :> 103 @@
    "h" :> 104 @@ "i" :> 105 @@ "j" :> 106 @@ "k" :> 107 @@ "l" :> 108 @@
    "m" :> 109 @@ "n" :> 110 @@ "o" :> 111 @@ "p" :> 112 @@ "q" :> 113 @@
    "r" :> 114 @@ "s" :> 115 @@ "t" :> 116 @@ "u" :> 117 @@ "v" :> 118 @@
    "w" :> 119 @@ "x" :> 120 @@ "y" :> 121 @@ "z" :> 122 @@
    "U+00C0" :> 192 @@ "U+00C2" :> 194 @@ "U+00C6" :> 198 @@
    "U+00C7" :> 199 @@ "U+00C8" :> 200 @@ "U+00C9" :> 201 @@
    "U+00CA" :> 202 @@ "U+00CB" :> 203 @@ "U+00CE" :> 206 @@
    "U+00CF" :> 207 @@ "U+00D4" :> 212 @@ "U+00D9" :> 217 @@
    "U+00DB" :> 219 @@ "U+00DC" :> 220 @@ "U+00E0" :> 224 @@
    "U+00E2" :> 226 @@ "U+00E6" :> 230 @@ "U+00E7" :> 231 @@
    "U+00E8" :> 232 @@ "U+00E9" :> 233 @@ "U+00EA" :> 234 @@
    "U+00EB" :> 235 @@ "U+00EE" :> 238 @@ "U+00EF" :> 239 @@
    "U+00F4" :> 244 @@ "U+00F9" :> 249 @@ "U+00FB" :> 251 @@
    "U+00FC" :> 252 @@ "U+00FF" :> 255 @@ "U+0152" :> 338 @@
    "U+0153" :> 339 @@ "U+0178" :> 376 @@ "U+0623" :> 1571 @@
    "U+0627" :> 1575 @@ "U+0628" :> 1576 @@ "U+0629" :> 1577 @@
    "U+062A" :> 1578 @@ "U+062C" :> 1580 @@ "U+062D" :> 1581 @@
    "U+062F" :> 1583 @@ "U+0631" :> 1585 @@ "U+0633" :> 1587 @@
    "U+0637" :> 1591 @@ "U+0639" :> 1593 @@ "U+0641" :> 1601 @@
    "U+0642" :> 1602 @@ "U+0643" :> 1603 @@ "U+0644" :> 1604 @@
    "U+0645" :> 1605 @@ "U+0647" :> 1607 @@ "U+064A" :> 1610

\* str.lower() of one character.
Lower(c) ==
    LET CharOf(m) == CHOOSE d \in DOMAIN CodePoint : CodePoint[d] = m
    IN  LET n == CodePoint[c]
        IN  IF n \in 65..90 \cup (192..222 \ {215}) THEN CharOf(n + 32)
            ELSE IF n = 338 THEN CharOf(339)
            ELSE IF n = 376 THEN CharOf(255)
            ELSE c

lower(text) == [i \in DOMAIN text |-> Lower(text[i])]

\* \w and \s of the regular expressions, on these characters.
IsWord(c) ==
    CodePoint[c] \in 48..57 \cup 65..90 \cup {95} \cup 97..122
                     \cup (192..255 \ {215, 247}) \cup {338, 339, 376}
                     \cup 1568..1610

IsSpace(c) == CodePoint[c] \in 9..13 \cup {32}

\* The accented letters of the second pattern of detect_language.
FRENCH_MARKERS ==
    {"U+00E0", "U+00E2", "U+00E7", "U+00E9", "U+00E8", "U+00EA", "U+00EB",
     "U+00EE", "U+00EF", "U+00F4", "U+00F9", "U+00FB", "U+00FC", "U+00FF",
     "U+0153", "U+00E6", "U+00C0", "U+00C2", "U+00C7", "U+00C9", "U+00C8",
     "U+00CA", "U+00CB", "U+00CE", "U+00CF", "U+00D4", "U+00D9", "U+00DB",
     "U+00DC", "U+0178", "U+0152", "U+00C6"}

\* The alternatives of the third pattern of detect_language.
FRENCH_WORDS ==
    {<<"j", "e">>, <<"t", "u">>, <<"i", "l">>, <<"e", "l", "l", "e">>,
     <<"n", "o", "u", "s">>, <<"v", "o", "u", "s">>, <<"i", "l", "s">>,
     <<"e", "l", "l", "e", "s">>, <<"l", "e">>, <<"l", "a">>,
     <<"l", "e", "s">>, <<"u", "n">>, <<"u", "n", "e">>, <<"d", "e", "s">>,
     <<"d", "u">>, <<"d", "e">>, <<"e", "t">>, <<"e", "s", "t">>,
     <<"e", "n">>, <<"a", "u">>, <<"a", "u", "x">>, <<"a", "v", "e", "c">>,
     <<"p", "o", "u", "r">>, <<"s", "u", "r">>, <<"d", "a", "n", "s">>,
     <<"p", "a", "r">>, <<"q", "u", "e">>, <<"q", "u", "i">>,
     <<"q", "u", "o", "i">>, <<"c", "o", "m", "m", "e", "n", "t">>,
     <<"q", "u", "a", "n", "d">>, <<"o", "U+00F9">>, <<"q", "u", "e", "l">>,
     <<"q", "u", "e", "l", "l", "e">>, <<"b", "o", "n", "j", "o", "u", "r">>,
     <<"s", "a", "l", "u", "t">>, <<"m", "e", "r", "c", "i">>,
     <<"o", "u", "i">>, <<"n", "o", "n">>,
     <<"p", "o", "u", "r", "q", "u", "o", "i">>,
     <<"i", "n", "s", "c", "r", "i", "p", "t", "i", "o", "n">>,
     <<"f", "r", "a", "i", "s">>, <<"c", "o", "u", "r", "s">>,
     <<"e", "x", "a", "m", "e", "n", "s">>, <<"p", "u", "i", "s">>,
     <<"m", "o", "n">>, <<"m", "a">>, <<"m", "e", "s">>, <<"s", "e", "s">>}

\* text.split(): the words between runs of whitespace.
RECURSIVE SplitFrom(_, _, _)
SplitFrom(text, i, word) ==
    LET done == IF word = <<>> THEN <<>> ELSE <<word>>
    IN  IF i > Len(text) THEN done
        ELSE IF IsSpace(text[i]) THEN done \o SplitFrom(text, i + 1, <<>>)
        ELSE SplitFrom(text, i + 1, Append(word, text[i]))

split(text) == SplitFrom(text, 1, <<>>)

\* ' '.join(words)
RECURSIVE join(_)
join(words) ==
    IF words = <<>> THEN <<>>
    ELSE IF Len(words) = 1 THEN words[1]
    ELSE words[1] \o <<" ">> \o join(Tail(words))

\* needle in hay
Contains(needle, hay) ==
    \E i \in 0..(Len(hay) - Len(needle)) :
        SubSeq(hay, i + 1, i + Len(needle)) = needle

\* What the three patterns of detect_language find in one word of the text.
PatternCounts(word) ==
    LET \* The first pattern of detect_language: U+0600..U+06FF, U+0750..U+077F,
        \* U+08A0..U+08FF.
        IsArabic(c) == CodePoint[c] \in 1536..1791 \cup 1872..1919 \cup 2208..2303
        \* The maximal runs of \w characters of a text: between two of them, and
        \* nowhere inside one, lies a \b.
        WordRuns(text) ==
            split([i \in DOMAIN text |-> IF IsWord(text[i]) THEN text[i] ELSE " "])
    IN  [arabic  |-> Cardinality({i \in DOMAIN word : IsArabic(word[i])}),
         markers |-> Cardinality({i \in DOMAIN word : word[i] \in FRENCH_MARKERS}),
         french  |-> LET runs == WordRuns(lower(word))
                     IN  Cardinality({i \in DOMAIN runs : runs[i] \in FRENCH_WORDS})]

\* detect_language on the characters of a text.
detect_language_of(text) ==
    LET words == split(text)
    IN  detect_language([i \in DOMAIN words |-> PatternCounts(words[i])])

\* _preprocess(text)
_preprocess(text) ==
    LET low == lower(text)
        kept(c) == IsWord(c) \/ IsSpace(c) \/ CodePoint[c] \in 1536..1791
    IN  join(split([i \in DOMAIN low |-> IF kept(low[i]) THEN low[i] ELSE " "]))

\* The length of the common run of a from i and b from j, inside a[..ahi]
\* and b[..bhi].
RECURSIVE RunLength(_, _, _, _, _, _)
RunLength(a, b, i, j, ahi, bhi) ==
    IF i > ahi \/ j > bhi THEN 0
    ELSE IF a[i] # b[j] THEN 0
    ELSE 1 + RunLength(a, b, i + 1, j + 1, ahi, bhi)

\* SequenceMatcher.find_longest_match on a[alo..ahi] and b[blo..bhi] (no
\* junk: isjunk is None and b is shorter than 200): the longest common
\* block, the one starting earliest in a, then earliest in b.
find_longest_match(a, b, alo, ahi, blo, bhi) ==
    LET size(i, j) == RunLength(a, b, i, j, ahi, bhi)
        sizes == {size(i, j) : i \in alo..ahi, j \in blo..bhi}
        k == CHOOSE s \in sizes : \A t \in sizes : s >= t
        i0 == CHOOSE i \in alo..ahi :
                /\ \E j \in blo..bhi : size(i, j) = k
                /\ \A h \in alo..(i - 1) : \A j \in blo..bhi : size(h, j) # k
        j0 == CHOOSE j \in blo..bhi :
                /\ size(i0, j) = k
                /\ \A h \in blo..(j - 1) : size(i0, h) # k
    IN  [a |-> i0, b |-> j0, size |-> k]

\* The sum of the sizes of SequenceMatcher.get_matching_blocks().
RECURSIVE MatchedChars(_, _, _, _, _, _)
MatchedChars(a, b, alo, ahi, blo, bhi) ==
    IF alo > ahi \/ blo > bhi THEN 0
    ELSE LET m == find_longest_match(a, b, alo, ahi, blo, bhi)
         IN  IF m.size = 0 THEN 0
             ELSE m.size
                  + MatchedChars(a, b, alo, m.a - 1, blo, m.b - 1)
                  + MatchedChars(a, b, m.a + m.size, ahi, m.b + m.size, bhi)

\* SequenceMatcher(None, a, b).ratio(): 2.0 * matches / length, 1.0 for two
\* empty strings.
_similarity(a, b) ==
    IF Len(a) + Len(b) = 0 THEN Rat(1, 1)
    ELSE Rat(2 * MatchedChars(a, b, 1, Len(a), 1, Len(b)), Len(a) + Len(b))

\* _keyword_score(query, faq)
_keyword_score(query, faq) ==
    LET query_words == split(query)
        hit(kw) == \/ Contains(lower(kw), query)
                   \/ \E i \in DOMAIN query_words :
                        Contains(lower(kw), query_words[i])
        hits == Cardinality({i \in DOMAIN faq.keywords : hit(faq.keywords[i])})
        n == IF Len(faq.keywords) > 1 THEN Len(faq.keywords) ELSE 1
        variant_bonus ==
            IF \E i \in DOMAIN faq.variants :
                 Contains(lower(faq.variants[i]), query)
            THEN Rat(3, 10) ELSE Rat(0, 10)
        sum == Rat(hits * variant_bonus.d + variant_bonus.n * n,
                   n * variant_bonus.d)
    IN  IF Gt(sum, Rat(1, 1)) THEN Rat(1, 1) ELSE sum

\* _semantic_score(query, faq)
_semantic_score(query, faq) ==
    LET sims == {_similarity(query, _preprocess(faq.question))}
                \cup {_similarity(query, _preprocess(faq.variants[i])) :
                        i \in DOMAIN faq.variants}
    IN  CHOOSE s \in sims : \A t \in sims : Geq(s, t)

\* The scores of the loop of find_best_match(user_query) over faqs.
score_catalog(user_query, faqs) ==
    LET query == _preprocess(user_query)
    IN  [i \in DOMAIN faqs |->
            [id |-> faqs[i].id, category |-> faqs[i].category,
             keyword  |-> _keyword_score(query, faqs[i]),
             semantic |-> _semantic_score(query, faqs[i])]]

\* The entries 1 and 6 of the catalog, as written in _FAQS.
GreetingEntry ==
    [id |-> 1, category |-> "greeting",
     question |-> <<"H", "e", "l", "l", "o", " ", "/", " ", "H", "i", " ",
                    "/", " ", "G", "r", "e", "e", "t", "i", "n", "g", "s">>,
     keywords |->
        <<<<"h", "e", "l", "l", "o">>,
          <<"h", "i">>,
          <<"h", "e", "y">>,
          <<"g", "r", "e", "e", "t", "i", "n", "g", "s">>,
          <<"s", "a", "l", "u", "t">>,
          <<"b", "o", "n", "j", "o", "u", "r">>,
          <<"s", "a", "l", "a", "m">>,
          <<"U+0645", "U+0631", "U+062D", "U+0628", "U+0627">>,
          <<"U+0627", "U+0644", "U+0633", "U+0644", "U+0627", "U+0645", " ",
            "U+0639", "U+0644", "U+064A", "U+0643", "U+0645">>,
          <<"U+0623", "U+0647", "U+0644", "U+0627">>,
          <<"U+0647", "U+0644", "U+0627">>>>,
     variants |->
        <<<<"h", "e", "l", "l", "o">>,
          <<"h", "i", " ", "t", "h", "e", "r", "e">>,
          <<"h", "e", "y">>,
          <<"g", "o", "o", "d", " ", "m", "o", "r", "n", "i", "n", "g">>,
          <<"b", "o", "n", "j", "o", "u", "r">>,
          <<"s", "a", "l", "u", "t">>,
          <<"U+0645", "U+0631", "U+062D", "U+0628", "U+0627">>,
          <<"U+0627", "U+0644", "U+0633", "U+0644", "U+0627", "U+0645", " ",
            "U+0639", "U+0644", "U+064A", "U+0643", "U+0645">>>>]

RegistrationEntry ==
    [id |-> 6, category |-> "registration",
     question |-> <<"H", "o", "w", " ", "d", "o", " ", "I", " ", "r", "e",
                    "g", "i", "s", "t", "e", "r", " ", "f", "o", "r", " ",
                    "c", "o", "u", "r", "s", "e", "s", "?">>,
     keywords |->
        <<<<"r", "e", "g", "i", "s", "t", "e", "r">>,
          <<"r", "e", "g", "i", "s", "t", "r", "a", "t", "i", "o", "n">>,
          <<"e", "n", "r", "o", "l", "l">>,
          <<"e", "n", "r", "o", "l", "l", "m", "e", "n", "t">>,
          <<"c", "o", "u", "r", "s", "e">>,
          <<"s", "i", "g", "n", "u", "p">>,
          <<"i", "n", "s", "c", "r", "i", "p", "t", "i", "o", "n">>,
          <<"i", "n", "s", "c", "r", "i", "r", "e">>,
          <<"c", "o", "u", "r", "s">>,
          <<"U+062A", "U+0633", "U+062C", "U+064A", "U+0644">>,
          <<"U+0645", "U+0627", "U+062F", "U+0629">>,
          <<"U+0643", "U+064A", "U+0641", " ", "U+0623", "U+0633", "U+062C",
            "U+0644">>,
          <<"U+0643", "U+064A", "U+0641", " ", "U+0627", "U+0633", "U+062C",
            "U+0644">>>>,
     variants |->
        <<<<"h", "o", "w", " ", "t", "o", " ", "r", "e", "g", "i", "s", "t",
            "e", "r">>,
          <<"r", "e", "g", "i", "s", "t", "r", "a", "t", "i", "o", "n", " ",
            "p", "r", "o", "c", "e", "s", "s">>,
          <<"e", "n", "r", "o", "l", "l", " ", "i", "n", " ", "c", "o", "u",
            "r", "s", "e", "s">>,
          <<"c", "o", "m", "m", "e", "n", "t", " ", "s", "'", "i", "n", "s",
            "c", "r", "i", "r", "e">>,
          <<"c", "o", "m", "m", "e", "n", "t", " ", "p", "u", "i", "s", "-",
            "j", "e", " ", "m", " ", "i", "n", "s", "c", "r", "i", "r", "e">>,
          <<"U+0643", "U+064A", "U+0641", " ", "U+0623", "U+0633", "U+062C",
            "U+0644">>,
          <<"U+0637", "U+0631", "U+064A", "U+0642", "U+0629", " ", "U+0627",
            "U+0644", "U+062A", "U+0633", "U+062C", "U+064A", "U+0644">>>>]


\* "Bonjour, comment s'inscrire?"
ScenarioQuery ==
    <<"B", "o", "n", "j", "o", "u", "r", ",", " ", "c", "o", "m", "m", "e", "n", "t", " ", "s", "'", "i", "n", "s", "c", "r", "i", "r", "e", "?">>

Queries ==
    LET \* Queries around the scenario: an optional greeting, a request, an
        \* optional mark.
        QueryGreetings ==
            {<<"B", "o", "n", "j", "o", "u", "r", ",", " ">>,
             <<"B", "o", "n", "j", "o", "u", "r", " ">>,
             <<"H", "e", "l", "l", "o", ",", " ">>,
             <<"H", "e", "l", "l", "o", " ">>,
             <<"S", "a", "l", "u", "t", ",", " ">>,
             <<"S", "a", "l", "u", "t", " ">>,
             <<>>}
        QueryRequests ==
            {<<"c", "o", "m", "m", "e", "n", "t", " ", "s", "'", "i", "n", "s", "c", "r", "i", "r", "e">>,
             <<"c", "o", "m", "m", "e", "n", "t", " ", "s", " ", "i", "n", "s", "c", "r", "i", "r", "e">>,
             <<"h", "o", "w", " ", "t", "o", " ", "r", "e", "g", "i", "s", "t", "e", "r">>,
             <<"i", "n", "s", "c", "r", "i", "p", "t", "i", "o", "n">>,
             <<"c", "o", "m", "m", "e", "n", "t", " ", "p", "u", "i", "s", "-", "j", "e", " ", "m", "'", "i", "n", "s", "c", "r", "i", "r", "e">>}
        QueryMarks == {<<"?">>, <<"!">>, <<>>}
    IN  {g \o r \o m : g \in QueryGreetings, r \in QueryRequests, m \in QueryMarks}

InitQuery ==
    /\ sessions = << >>
    /\ log = [u \in Users |-> <<>>]
    /\ sent = [u \in Users |-> 0]
    /\ last = Event("none", 0, 0, "none", {}, "none")
    /\ inflight = {}
    /\ call \in {[fn |-> "query", text |-> q] : q \in Queries}

\* The first two statements of search_faq on the query: the language and
\* the best match.
query_matched ==
    LET \* The two entries in catalog order.  Whatever beats entry 6 here beats it
        \* in the whole catalog too.
        GreetingAndRegistration == <<GreetingEntry, RegistrationEntry>>
    IN  /\ call.fn = "query"
        /\ call' = [fn |-> "find_best_match", text |-> call.text,
                    language |-> detect_language_of(call.text),
                    match |-> find_best_match(
                                  score_catalog(call.text, GreetingAndRegistration),
                                  BEST_THRESHOLD)]
        /\ UNCHANGED <<sessions, log, sent, last, inflight>>

SpecQuery == InitQuery /\ [][query_matched]_vars

\* ---------------------------------------------------------- session clock
\* One user whose sessions record the time of their creation.  call is the
\* clock _new_session reads; it advances between events, never inside a
\* handler.

\* The last reading of the clock.
MaxClock == 2

\* The most messages accepted.
MaxClockMsgs == 2

InitClock ==
    /\ sessions = << >>
    /\ log = [u \in Users |-> <<>>]
    /\ sent = [u \in Users |-> 0]
    /\ last = Event("none", 0, 0, "none", {}, "none")
    /\ inflight = {}
    /\ call = [fn |-> "clock", now |-> 0]

\* Time passes.
tick ==
    /\ call.now < MaxClock
    /\ call' = [call EXCEPT !.now = @ + 1]
    /\ UNCHANGED <<sessions, log, sent, last, inflight>>

NextClock ==
    \/ tick
    \/ \E dbOk \in BOOLEAN : start_command(1, dbOk)
    \/ reset_command(1)
    \/ help_command(1)
    \/ status_command(1)
    \/ \E data \in CallbackData, fault \in Faults : callback_router(1, data, fault)
    \/ \E fault \in MessageFaults : handle_message(1, fault, MaxClockMsgs)

SpecClock == InitClock /\ [][NextClock]_vars

\* ----------------------------------- the selection flow towards one university
\* Accepted free-text messages before the user settles on a university.
MaxFlowMsgs == 1

\* The user, in front of the university keyboard that /start has just sent,
\* settles on the active university g.
flow_begin(g) ==
    /\ call = NoCall
    /\ last.kind = "start"
    /\ last.reply = "choose_university"
    /\ call' = [fn |-> "goal", university |-> g]
    /\ UNCHANGED <<sessions, log, sent, last, inflight>>

\* The user follows the bot: the button of the chosen university, then a
\* button of the keyboard the last reply carried (the active faculties of
\* the university just bound; the active departments of the faculty just
\* bound, or skip), and a free-text message once the reply says the setup
\* is done.
flow_step ==
    /\ call.fn = "goal"
    /\ \/ /\ last.kind = "start"
          /\ callback_router(1, [prefix |-> CALLBACK_UNI, arg |-> call.university],
                             "none")
       \/ /\ last.reply = "choose_faculty"
          /\ \E f \in ActiveFaculties(sessions[1].university_id) :
                callback_router(1, [prefix |-> CALLBACK_FAC, arg |-> f], "none")
       \/ /\ last.reply = "choose_department"
          /\ \E d \in ActiveDepartments(sessions[1].faculty_id) :
                callback_router(1, [prefix |-> CALLBACK_DEPT, arg |-> d], "none")
       \/ /\ last.reply = "choose_department"
          /\ callback_router(1, [prefix |-> CALLBACK_SKIP, arg |-> 0], "none")
       \/ /\ last.reply \in {"university_selected_no_faculties",
                             "faculty_selected_no_departments",
                             "setup_complete", "setup_complete_skipped"}
          /\ handle_message(1, "none", MaxFlowMsgs + 1)

\* Any events of one user first; from /start on, the flow towards the
\* university the user has settled on.
NextFlow ==
    \/ call = NoCall /\ start_command(1, TRUE)
    \/ call = NoCall /\ reset_command(1)
    \/ \E data \in OfferedCallbackData :
          call = NoCall /\ callback_router(1, data, "none")
    \/ \E fault \in MessageFaults :
          call = NoCall /\ handle_message(1, fault, MaxFlowMsgs)
    \/ \E g \in ActiveUniversities : flow_begin(g)
    \/ flow_step

\* The user who has settled on a university keeps going while the bot
\* offers a next step.
SpecFlow == Init /\ [][NextFlow]_vars /\ WF_vars(flow_step)

\* ---------------------------------------------------------------- claims
\* The session of the user the last event was dispatched for.
LastSession == sessions[last.user]

LastHasSession == last.user \in DOMAIN sessions

SelectKinds == {CALLBACK_UNI, CALLBACK_FAC, CALLBACK_DEPT}

KnownKinds ==
    {"none", "start", "reset", "help", "status", "message",
     CALLBACK_UNI, CALLBACK_FAC, CALLBACK_DEPT, CALLBACK_SKIP}

\* The id of a select event names no row, or an inactive one.
MissingOrInactive(kind, id) ==
    \/ kind = CALLBACK_UNI
       /\ (id \notin DOMAIN UniversityTable \/ ~UniversityTable[id].is_active)
    \/ kind = CALLBACK_FAC
       /\ (id \notin DOMAIN FacultyTable \/ ~FacultyTable[id].is_active)
    \/ kind = CALLBACK_DEPT
       /\ (id \notin DOMAIN DepartmentTable \/ ~DepartmentTable[id].is_active)

\* Every binding of a session is null and its history is empty.
IsFresh(s) ==
    /\ s.university_id = None /\ s.university_name = NoneStr
    /\ s.faculty_id = None /\ s.faculty_name = NoneStr
    /\ s.department_id = None /\ s.department_name = NoneStr
    /\ Len(s.history) = 0

\* C1: in every reachable state every session's history holds at most
\* MAX_HISTORY_MESSAGES = 10 turns.
C1_HistoryWithinCap ==
    \A u \in DOMAIN sessions : Len(sessions[u].history) <= 10

\* More than 10 turns were appended to a session and its history is full.
C1_Witness ==
    \E u \in DOMAIN sessions :
        Len(log[u]) > 10 /\ Len(sessions[u].history) = 10

\* C2: after n sequential _append_history calls on a session its history is
\* exactly the last min(n, 10) appended turns in emission order; after 11
\* calls the 1st turn is absent, the 11th is the last element and the length
\* is 10.
C2_FifoEviction ==
    \A u \in DOMAIN sessions :
        LET h == sessions[u].history
            n == Len(log[u])
        IN  /\ Len(h) = (IF n < 10 THEN n ELSE 10)
            /\ \A i \in 1..Len(h) : h[i] = log[u][n - Len(h) + i]
            /\ n = 11 =>
                  /\ \A i \in 1..Len(h) : h[i] # log[u][1]
                  /\ h[Len(h)] = log[u][11]
                  /\ Len(h) = 10

\* Exactly 11 turns were appended to a session.
C2_Witness ==
    \E u \in DOMAIN sessions : Len(log[u]) = 11 /\ Len(sessions[u].history) = 10

\* C3: after a successful select of an institution with zero active
\* sub-units the session is READY: a free-text message sent immediately
\* afterwards is not refused as an incomplete selection.
C3_ZeroSubunitsReady ==
    [][(/\ last.kind = CALLBACK_UNI
        /\ last.reply = "university_selected_no_faculties"
        /\ last'.kind = "message"
        /\ last'.user = last.user)
       => last'.reply # "incomplete_selection"]_vars

\* C4: after a successful select of an institution with zero sub-units the
\* sub-unit and department bindings hold the "N/A" sentinel, none is null.
C4_SentinelNeverNull ==
    (last.kind = CALLBACK_UNI /\ last.reply = "university_selected_no_faculties")
    => /\ LastSession.faculty_name = "N/A"
       /\ LastSession.department_name = "N/A"

\* C5: /start and /reset replace the user's session with a fresh one (all
\* bindings null, empty history), from any state, and a free-text message
\* sent right after it is refused.
C5_RestartFresh ==
    [][/\ last'.kind \in {"start", "reset"}
          => /\ last'.user \in DOMAIN sessions'
             /\ IsFresh(sessions'[last'.user])
       /\ (/\ last.kind \in {"start", "reset"}
           /\ last'.kind = "message"
           /\ last'.user = last.user)
          => last'.reply = "incomplete_selection"]_vars

\* A user who had completed the selection and talked restarted, and the next
\* free-text message was refused.
C5_Witness ==
    /\ last.kind = "message"
    /\ last.reply = "incomplete_selection"
    /\ sent[last.user] > 0
    /\ LastHasSession
    /\ IsFresh(LastSession)

\* C6: a select event whose id is missing from the directory or names an
\* inactive entity (the lookup itself succeeding) replies not-found and
\* leaves the sessions unmodified.
C6_NotFoundUnmodified ==
    [][(/\ last'.kind \in SelectKinds
        /\ last'.fault # "lookup"
        /\ MissingOrInactive(last'.kind, last'.arg))
       => /\ last'.reply = "not_found"
          /\ sessions' = sessions
          /\ log' = log]_vars

\* A department select with an unknown or inactive id was answered with
\* not-found for a user whose session holds bindings and history.
C6_Witness ==
    /\ last.kind = CALLBACK_DEPT
    /\ last.reply = "not_found"
    /\ LastHasSession
    /\ LastSession.university_id # None
    /\ LastSession.faculty_id # None
    /\ Len(LastSession.history) > 0

\* C7: a free-text message received while the institution or the sub-unit
\* is not bound is refused, appends no turn, changes no binding and invokes
\* neither the knowledge nor the generative collaborator.
C7_IncompleteRefused ==
    [][(/\ last'.kind = "message"
        /\ \/ last'.user \notin DOMAIN sessions
           \/ sessions[last'.user].university_id = None
           \/ sessions[last'.user].faculty_id = None)
       => /\ last'.reply = "incomplete_selection"
          /\ last'.calls = {}
          /\ sessions' = sessions
          /\ log' = log]_vars

\* A message was refused while the university was bound and no faculty was.
C7_Witness ==
    /\ last.kind = "message"
    /\ last.reply = "incomplete_selection"
    /\ LastHasSession
    /\ LastSession.university_id # None
    /\ LastSession.faculty_id = None
    /\ LastSession.faculty_name = NoneStr

\* C8 as claimed: a free-text message sent while the department choice is
\* still pending (institution and sub-unit bound, the department keyboard
\* just offered) is answered with the incomplete-selection directive and changes nothing.
C8_RefusedBeforeReady ==
    [][(/\ last.kind = CALLBACK_FAC
        /\ last.reply = "choose_department"
        /\ sessions[last.user].university_id # None
        /\ last'.kind = "message"
        /\ last'.user = last.user)
       => /\ last'.reply = "incomplete_selection"
          /\ sessions' = sessions]_vars

\* C8 amended: a free-text message is refused exactly when the institution
\* or the sub-unit is unbound, and a refused message changes nothing; with
\* both bound it is taken up, also while the department choice is pending.
C8_RefusedIffUnbound ==
    [][last'.kind = "message"
       => /\ last'.reply = "incomplete_selection"
             <=> \/ last'.user \notin DOMAIN sessions
                 \/ sessions[last'.user].university_id = None
                 \/ sessions[last'.user].faculty_id = None
          /\ last'.reply = "incomplete_selection" => sessions' = sessions
          /\ (/\ last.kind = CALLBACK_FAC
              /\ last.reply = "choose_department"
              /\ sessions[last.user].university_id # None
              /\ last'.user = last.user)
             => last'.reply # "incomplete_selection"]_vars

\* A message was answered by the generative collaborator for a session whose
\* faculty has departments on offer and whose department is unbound.
C8_Witness ==
    /\ last.kind = "message"
    /\ last.reply = "ai_response"
    /\ LastHasSession
    /\ LastSession.faculty_id # None
    /\ ActiveDepartments(LastSession.faculty_id) # {}
    /\ LastSession.department_id = None
    /\ LastSession.department_name = NoneStr

\* C9: a callback whose data matches none of the uni_/fac_/dept_ prefixes
\* nor skip_dept is answered with "unknown action" and leaves every session
\* untouched; no event changes a session without a reply.
C9_UnknownActionUntouched ==
    [][/\ last'.kind \notin KnownKinds
          => /\ last'.reply = "unknown_action"
             /\ sessions' = sessions
             /\ log' = log
       /\ sessions' # sessions => last'.reply \notin {"none", "unhandled_exception"}]_vars

\* An unrecognized callback was answered while both users hold a session
\* with a bound university.
C9_Witness ==
    /\ last.kind \notin KnownKinds
    /\ last.reply = "unknown_action"
    /\ DOMAIN sessions = Users
    /\ \A u \in Users : sessions[u].university_id # None

\* C10: a valid department select, or skip, moves the session to READY
\* whatever the state it arrives in: a free-text message sent immediately
\* afterwards is not refused as an incomplete selection.
C10_DepartmentOrSkipReady ==
    [][(/\ last.kind \in {CALLBACK_DEPT, CALLBACK_SKIP}
        /\ last.reply \in {"setup_complete", "setup_complete_skipped"}
        /\ last'.kind = "message"
        /\ last'.user = last.user)
       => last'.reply # "incomplete_selection"]_vars

\* C11: a successful faculty select binds the faculty id and name; with zero
\* active child departments the department name becomes "N/A" and the
\* session is READY (the next free-text message is not refused), otherwise
\* the department choices are offered.
C11_SubunitSelectOutcome ==
    [][/\ (/\ last'.kind = CALLBACK_FAC
           /\ last'.reply \in {"faculty_selected_no_departments", "choose_department"})
          => /\ sessions'[last'.user].faculty_id = last'.arg
             /\ sessions'[last'.user].faculty_name = FacultyTable[last'.arg].name
             /\ last'.reply = "faculty_selected_no_departments"
                   <=> ActiveDepartments(last'.arg) = {}
             /\ last'.reply = "faculty_selected_no_departments"
                   => sessions'[last'.user].department_name = "N/A"
       /\ (/\ last.kind = CALLBACK_FAC
           /\ last.reply = "faculty_selected_no_departments"
           /\ last'.kind = "message"
           /\ last'.user = last.user)
          => last'.reply # "incomplete_selection"]_vars

\* C12: in every reachable state a bound faculty implies a bound university,
\* whatever the order of the select events.
C12_SubunitOnlyWithInstitution ==
    \A u \in DOMAIN sessions :
        sessions[u].faculty_id # None => sessions[u].university_id # None

\* C13: _is_setup_complete holds for a user exactly when the user has a
\* session whose university id and faculty id are both bound, whatever the
\* department binding is.
C13_CompleteIffBothBound ==
    \A u \in Users :
        _is_setup_complete(u)
            <=> /\ u \in DOMAIN sessions
                /\ sessions[u].university_id # None
                /\ sessions[u].faculty_id # None

\* One user is complete with the department sentinel "N/A", the other user
\* has no session and is incomplete.
C13_Witness ==
    \E u, v \in Users :
        /\ u \in DOMAIN sessions
        /\ _is_setup_complete(u)
        /\ sessions[u].department_id = None
        /\ sessions[u].department_name = "N/A"
        /\ v \notin DOMAIN sessions
        /\ ~_is_setup_complete(v)

\* C14: for an accepted free-text message whose collaborators succeed, the
\* generative collaborator is called with the session's bounded history
\* whose last turn is the user turn of that message (the earlier turns being
\* the newest earlier turns of the session), and afterwards the history ends
\* with exactly (user: message, assistant: returned text) in that order.
C14_ExchangeOrder ==
    [][(last'.kind = "message" /\ last'.reply = "ai_response")
       => LET u    == last'.user
              text == last'.arg
              g    == last'.given
              old  == sessions[u].history
              h    == sessions'[u].history
          IN  /\ "generate" \in last'.calls
              /\ Len(g) = (IF Len(old) < 10 THEN Len(old) + 1 ELSE 10)
              /\ g[Len(g)] = [role |-> "user", content |-> text]
              /\ \A i \in 1..(Len(g) - 1) : g[i] = old[Len(old) - (Len(g) - 1) + i]
              /\ Len(h) >= 2
              /\ Len(h) <= 10
              /\ h[Len(h) - 1] = [role |-> "user", content |-> text]
              /\ h[Len(h)] = [role |-> "assistant",
                              content |-> generate_chat_response(text)]
              /\ \A i \in 1..(Len(h) - 2) : h[i] = g[Len(g) - (Len(h) - 1) + i]]_vars

\* A message was answered for a session whose history had already reached
\* the cap, so both appends evicted a turn.
C14_Witness ==
    /\ last.kind = "message"
    /\ last.reply = "ai_response"
    /\ Len(log[last.user]) > 11
    /\ Len(last.given) = 10

\* The failures a collaborator call can raise: the directory ("directory" in
\* /start, "lookup" and "children" in the callbacks), the knowledge search
\* and the generator.
CollaboratorFaults == {"directory", "lookup", "children", "knowledge", "generate"}

\* C15: a failure of the directory, the knowledge search or the generator
\* while an event is handled ends in an error or apology reply to the user
\* of that event, never in an exception that leaves the handler, and it
\* changes no other user's session or conversation.
C15_UpstreamFailureContained ==
    [][last'.fault \in CollaboratorFaults
       => /\ last'.reply \in {"error", "apology"}
          /\ \A v \in Users \ {last'.user} :
                /\ (v \in DOMAIN sessions') = (v \in DOMAIN sessions)
                /\ v \in DOMAIN sessions => sessions'[v] = sessions[v]
                /\ log'[v] = log[v]
                /\ sent'[v] = sent[v]]_vars

\* The generator fails for one user while another user has completed the
\* selection; the reply is the apology.
C15_Witness ==
    /\ last.kind = "message"
    /\ last.fault = "generate"
    /\ last.reply = "apology"
    /\ \E v \in Users \ {last.user} : v \in DOMAIN sessions /\ _is_setup_complete(v)

\* The session handle_message leaves when it runs alone on session s with
\* the given text: fault "generate" keeps the user turn only.
AloneResult(s, text, fault) ==
    [s EXCEPT !.history = IF fault = "generate"
                          THEN _exchange(s.history, text).given
                          ELSE _exchange(s.history, text).history]

\* C16: a step of an event of user A changes only A's session, conversation
\* and dispatches; and with the users' events interleaved in any way, a
\* message dispatch ends with the session that handle_message run alone
\* yields from the session the dispatch began with.
C16_PerUserIsolation ==
    [][/\ \A v \in Users \ {last'.user} :
             /\ (v \in DOMAIN sessions') = (v \in DOMAIN sessions)
             /\ v \in DOMAIN sessions => sessions'[v] = sessions[v]
             /\ log'[v] = log[v]
             /\ sent'[v] = sent[v]
             /\ {d \in inflight' : d.user = v} = {d \in inflight : d.user = v}
       /\ (last'.kind = "message" /\ last'.reply = "ai_response")
             => \E d \in inflight \ inflight' :
                   /\ d.user = last'.user
                   /\ d.text = last'.arg
                   /\ sessions'[d.user] = AloneResult(d.base, d.text, "none")
       /\ (last'.kind = "message" /\ last'.fault = "generate")
             => \E d \in inflight \ inflight' :
                   /\ d.user = last'.user
                   /\ sessions'[d.user] = AloneResult(d.base, d.text, "generate")]_vars

\* A dispatch has ended with its answer while a dispatch of another user,
\* begun while the first was in flight, is still under way.
C16_Witness ==
    /\ last.kind = "message"
    /\ last.reply = "ai_response"
    /\ \E d \in inflight :
          /\ d.user # last.user
          /\ last.user \in d.peers
          /\ d.pc = "assistant_cap"

\* In a history left by message events handled one after the other, every
\* answer below the first position follows the user turn it answers.
AnswersFollowQuestions(h) ==
    \A i \in 2..Len(h) :
        h[i].role = "assistant"
            => h[i - 1] = Turn("user", h[i].content - 100)

\* C17: when message dispatches of one user overlap, their appends do not
\* interleave: once no dispatch of the user is in flight, the history is the
\* newest turns of everything appended (nothing is lost but by the cap) and
\* it is the history of the events handled in some order one after the other.
C17_SameUserSerialized ==
    \A u \in DOMAIN sessions :
        Idle(u) => /\ sessions[u].history = LastN(log[u], MAX_HISTORY_MESSAGES)
                   /\ AnswersFollowQuestions(sessions[u].history)

\* C18: the store holds one session per user, created lazily: _session on an
\* unknown user installs a fresh session (no binding, empty history, not
\* ready for messages) for that user only, and on a known user it returns
\* the existing session and changes nothing in the store.
C18_GetOrCreate ==
    [][last'.kind = "_session"
       => LET u == last'.user IN
          /\ DOMAIN sessions' = DOMAIN sessions \cup {u}
          /\ \A v \in DOMAIN sessions : sessions'[v] = sessions[v]
          /\ u \notin DOMAIN sessions
                => /\ last'.reply = "created"
                   /\ IsFresh(sessions'[u])
                   /\ sessions'[u].university_id = None
          /\ u \in DOMAIN sessions
                => /\ last'.reply = "existing"
                   /\ sessions' = sessions]_vars

\* Get-or-create has returned the session of a user who has selected and
\* talked, while the other user has a session too.
C18_Witness ==
    /\ last.kind = "_session"
    /\ last.reply = "existing"
    /\ Len(sessions[last.user].history) = 2
    /\ sessions[last.user].department_id # None
    /\ DOMAIN sessions = Users

\* The length of the piece built from snippet r.
PieceLen(r) == 4 + Len(r.title) + Min(Len(r.content), CONTENT_CHARS)

\* Where the piece of snippet i begins in the block, less one.
RECURSIVE PieceOffset(_, _)
PieceOffset(results, i) ==
    IF i = 1 THEN 0
    ELSE PieceOffset(results, i - 1) + PieceLen(results[i - 1]) + 1

\* C19: the knowledge context handed to the generator comes from at most 3
\* snippets requested for the message text and the bound institution id;
\* with snippets it is, in the order of the results, each title followed by
\* the first 300 characters of its content, and with no snippet it is null.
C19_KnowledgeContext ==
    call.fn = "knowledge_context" =>
        LET res == call.knowledge_results
            out == call.passed
        IN  /\ call.request = [text |-> call.user_message,
                               university_id |-> call.university_id,
                               limit |-> 3]
            /\ Len(res) <= 3
            /\ out.null <=> res = <<>>
            /\ res # <<>> =>
                  /\ Len(out.text) = PieceOffset(res, Len(res)) + PieceLen(res[Len(res)])
                  /\ \A i \in 1..Len(res) :
                        LET at == PieceOffset(res, i)
                            lt == Len(res[i].title)
                            lc == Min(Len(res[i].content), 300)
                        IN  /\ \A k \in 1..lt : out.text[at + 2 + k] = res[i].title[k]
                            /\ \A k \in 1..lc : out.text[at + 4 + lt + k] = res[i].content[k]
                            /\ i < Len(res) => out.text[at + 4 + lt + lc + 1] = 10

\* A context was built from three snippets whose contents are longer than,
\* as long as, and shorter than the slice.
C19_Witness ==
    /\ call.fn = "knowledge_context"
    /\ Len(call.knowledge_results) = 3
    /\ Len(call.knowledge_results[1].content) > 300
    /\ Len(call.knowledge_results[2].content) = 300
    /\ Len(call.knowledge_results[3].content) = 0
    /\ ~call.passed.null

\* C20: for every institution snapshot, whatever columns are null, and for no
\* snapshot, every token of the map build_placeholders returns has a
\* non-empty value.
C20_NoEmptyToken ==
    call.fn = "build_placeholders" =>
        /\ DOMAIN call.out = Tokens
        /\ \A k \in Tokens : call.out[k] # <<>>

\* C21: a rendered answer holds no unresolved placeholder: for every answer
\* template of the catalog and every snapshot, also one whose values hold
\* token-like text, no "{token}" of the placeholder map is left after fill.
C21_NoTokenLeft ==
    call.fn = "fill" =>
        \A i \in 1..Len(call.out) : \A k \in Tokens : call.out[i] # Brace(k)

\* C22: detect_language returns one of ar, fr, en for every text, and ar
\* for every text with at least 2 Arabic-script characters, whatever French
\* accented letters, French words or other content the text holds.
C22_ArabicWins ==
    call.fn = "detect_language" =>
        /\ call.out \in {"ar", "fr", "en"}
        /\ (\E i \in 1..Len(call.text) :
               \/ call.text[i].arabic >= 2
               \/ \E j \in 1..Len(call.text) :
                     j # i /\ call.text[i].arabic >= 1 /\ call.text[j].arabic >= 1)
              => call.out = "ar"

\* A text of two words with one Arabic letter each and a word that holds
\* two French words is detected as Arabic.
C22_Witness ==
    /\ call.fn = "detect_language"
    /\ call.out = "ar"
    /\ Len(call.text) = 3
    /\ \A i \in 1..3 : call.text[i].arabic <= 1
    /\ \E i \in 1..3 : call.text[i].french = 2

\* The result of find_multiple_matches is in order: confidences do not
\* rise, and of two entries of equal confidence the one earlier in the
\* catalog comes first.
InMatchOrder(matches) ==
    \A i \in 1..Len(matches) : \A j \in (i + 1)..Len(matches) :
        /\ matches[i].confidence >= matches[j].confidence
        /\ matches[i].confidence = matches[j].confidence
              => matches[i].faq < matches[j].faq

\* C23 as stated: for every top_k value find_multiple_matches returns at
\* most top_k entries, each with a confidence of at least the threshold
\* 0.25, sorted by confidence descending, equal confidences in catalog order.
C23_AtMostTopKAnyTopK ==
    call.fn = "find_multiple_matches" =>
        /\ Len(call.multiple) <= call.top_k
        /\ \A i \in 1..Len(call.multiple) : call.multiple[i].confidence >= 25
        /\ InMatchOrder(call.multiple)

\* C23 amended: for every top_k >= 0 find_multiple_matches returns at most
\* top_k entries, each with a confidence of at least the threshold 0.25,
\* sorted by confidence descending, equal confidences in catalog order.
C23_AtMostTopK ==
    (call.fn = "find_multiple_matches" /\ call.top_k >= 0) =>
        /\ Len(call.multiple) <= call.top_k
        /\ \A i \in 1..Len(call.multiple) : call.multiple[i].confidence >= 25
        /\ InMatchOrder(call.multiple)

\* Three entries pass the threshold and top_k is 2: the result has two
\* entries of the same confidence, the first of which is not the first of
\* the catalog.
C23_Witness ==
    /\ call.fn = "find_multiple_matches"
    /\ call.top_k = 2
    /\ Len(call.faqs) = 3
    /\ Len(call.multiple) = 2
    /\ call.multiple[1].confidence = call.multiple[2].confidence
    /\ call.multiple[1].faq = 2
    /\ \A i \in 1..3 : Geq(CombinedScore(call.faqs[i]), MULTIPLE_THRESHOLD)

\* C24: find_best_match returns the entry with the highest combined score
\* 0.6 x keyword + 0.4 x semantic, with the score rounded to hundredths as
\* its confidence and with its category, when that score is at least 0.30,
\* and no match otherwise; the confidence lies in [0.30, 1].
C24_BestMatch ==
    call.fn = "find_best_match" =>
        LET Score(i) == Rat(6 * call.faqs[i].keyword.n * call.faqs[i].semantic.d
                              + 4 * call.faqs[i].semantic.n * call.faqs[i].keyword.d,
                            10 * call.faqs[i].keyword.d * call.faqs[i].semantic.d)
            passing == {i \in 1..Len(call.faqs) : 10 * Score(i).n >= 3 * Score(i).d}
        IN  IF passing = {}
            THEN call.best = NoMatch
            ELSE /\ call.best.found
                 /\ call.best.faq \in passing
                 /\ \A j \in 1..Len(call.faqs) :
                       Score(call.best.faq).n * Score(j).d >= Score(j).n * Score(call.best.faq).d
                 /\ call.best.category = call.faqs[call.best.faq].category
                 /\ 2 * (100 * Score(call.best.faq).n
                           - call.best.confidence * Score(call.best.faq).d)
                       <= Score(call.best.faq).d
                 /\ 2 * (call.best.confidence * Score(call.best.faq).d
                           - 100 * Score(call.best.faq).n)
                       <= Score(call.best.faq).d
                 /\ call.best.confidence >= 30
                 /\ call.best.confidence <= 100

\* The third of three entries is the best, with a score of 0.4857 reported
\* as 0.49, while another entry also passes the threshold.
C24_Witness ==
    /\ call.fn = "find_best_match"
    /\ Len(call.faqs) = 3
    /\ call.best.found
    /\ call.best.faq = 3
    /\ call.best.confidence = 49
    /\ Geq(CombinedScore(call.faqs[1]), BEST_THRESHOLD)

C26_SearchOutcome ==
    call.fn = "search_faq" =>
        LET out   == call.out
            match == find_best_match(call.faqs, BEST_THRESHOLD)
            faq   == call.faqs[match.faq]
            has(l) == l \in DOMAIN faq.answers /\ faq.answers[l] # <<>>
            template ==
                CASE has(out.language) -> faq.answers[out.language]
                  [] ~has(out.language) /\ has("en") -> faq.answers["en"]
                  [] OTHER -> <<>>
        IN  /\ out.language = detect_language(call.text)
            /\ out.found = match.found
            /\ out.found =>
                  /\ DOMAIN out = {"found", "answer", "question", "confidence",
                                   "category", "language"}
                  /\ out.answer = fill(template, build_placeholders(call.university))
                  /\ template # <<>> =>
                        out.answer[1] = (IF has(out.language) THEN out.language ELSE "en")
                  /\ out.question = faq.question
                  /\ out.confidence = match.confidence
                  /\ out.category = faq.category
            /\ ~out.found =>
                  /\ DOMAIN out = {"found", "language", "message"}
                  /\ out.message = "No FAQ match found. AI will respond."

\* A French query matched an entry whose French answer is empty: the
\* English answer was rendered for the snapshot.
C26_Witness ==
    /\ call.fn = "search_faq"
    /\ call.out.found
    /\ call.out.language = "fr"
    /\ call.university.present
    /\ call.out.answer = <<"en", "Univ X", "wording">>
    /\ Len(call.faqs) = 2
    /\ \A i \in 1..2 : "fr" \in DOMAIN call.faqs[i].answers

\* C27: for the query "Bonjour, comment s'inscrire?" the language is "fr"
\* and the best match is the course-registration entry, id 6, with
\* confidence at least 0.3.
C27_RegistrationWins ==
    (call.fn = "find_best_match" /\ call.text = ScenarioQuery) =>
        /\ call.language = "fr"
        /\ call.match.found
        /\ call.match.faq = 6
        /\ call.match.confidence >= 30

\* The role every derived email token is built on.
RoleOf ==
    [email_registrar     |-> "registrar",
     email_finance       |-> "finance",
     email_it            |-> "itsupport",
     email_student       |-> "studentaffairs",
     email_financial_aid |-> "financialaid",
     email_housing       |-> "housing",
     email_library       |-> "library",
     email_academic      |-> "academic"]

\* C28: for a present snapshot every role-based email token is the role
\* name, "@", and the domain left when the local part of the general email
\* is stripped (what follows its last "@"), or "university.dz" when the
\* email is missing or holds no "@"; the address token is the snapshot's
\* address when it has one, and otherwise "Campus of <name>, <city>".
C28_DerivedFields ==
    (call.fn = "build_placeholders" /\ call.university.present) =>
        LET row == call.university.row
            out == call.out
            missing(x) == x.null \/ x.text = <<>>
            email == row.email.text
            at(t) == \E i \in 1..Len(t) : t[i] = "@"
            IsDomain(d) ==
                IF ~missing(row.email) /\ at(email)
                THEN /\ ~at(d)
                     /\ \E n \in 1..Len(email) :
                            email[n] = "@" /\ d = SubSeq(email, n + 1, Len(email))
                ELSE d = <<"university.dz">>
            name == IF missing(row.name) THEN <<"your university">>
                    ELSE row.name.text
            city == IF missing(row.city) THEN <<>> ELSE row.city.text
        IN  /\ \A k \in DOMAIN RoleOf :
                /\ Len(out[k]) >= 2
                /\ out[k][1] = RoleOf[k]
                /\ out[k][2] = "@"
                /\ IsDomain(SubSeq(out[k], 3, Len(out[k])))
            /\ out.address = IF ~missing(row.address) THEN row.address.text
                             ELSE <<"Campus of ">> \o name \o <<", ">> \o city

C28_Witness ==
    /\ call.fn = "build_placeholders"
    /\ call.university.present
    /\ call.university.row.email = Text(<<"a", "@", "b", "@", "univ-x.dz">>)
    /\ call.out.email_financial_aid = <<"financialaid", "@", "univ-x.dz">>
    /\ call.university.row.address = NoText
    /\ call.out.address = <<"Campus of ", "Univ X", ", ", "Algiers">>

\* C29: when a collaborator fails during an accepted free-text message, the
\* bindings are unchanged; after a failure of the context or knowledge
\* lookup the history is unchanged too; after a failure of the generative
\* call the history is the old one with the user's turn appended (the
\* newest MAX_HISTORY_MESSAGES turns of it) and no assistant turn.
C29_FailureEffects ==
    [][(last'.kind = "message" /\ last'.fault \in {"knowledge", "generate"}) =>
          LET u == last'.user
              before == sessions[u]
              after == sessions'[u]
              turn == [role |-> "user", content |-> last'.arg]
              pushed == before.history \o <<turn>>
              kept == IF Len(pushed) < MAX_HISTORY_MESSAGES THEN Len(pushed)
                      ELSE MAX_HISTORY_MESSAGES
          IN  /\ u \in DOMAIN sessions
              /\ DOMAIN sessions' = DOMAIN sessions
              /\ \A v \in DOMAIN sessions \ {u} : sessions'[v] = sessions[v]
              /\ \A f \in DOMAIN before \ {"history"} : after[f] = before[f]
              /\ last'.fault = "knowledge" => after.history = before.history
              /\ last'.fault = "generate" =>
                    /\ Len(after.history) = kept
                    /\ \A i \in 1..kept :
                          after.history[i] = pushed[Len(pushed) - kept + i]
                    /\ after.history[kept].role = "user"
      ]_vars

C29_Witness ==
    /\ last.kind = "message"
    /\ last.fault = "generate"
    /\ Len(sessions[1].history) = MAX_HISTORY_MESSAGES
    /\ sessions[1].history[MAX_HISTORY_MESSAGES] =
          [role |-> "user", content |-> last.arg]
    /\ sessions[1].history[1].role = "assistant"

\* C30: no selection event (a university, faculty or department chosen, the
\* department skipped, a callback that is not recognized) changes the
\* history or the creation time of a session that exists; a step that
\* changes either is a /start, a /reset or an accepted free-text message of
\* that user.
C30_SelectionFrame ==
    [][\A u \in DOMAIN sessions :
          LET kept == /\ u \in DOMAIN sessions'
                      /\ sessions'[u].history = sessions[u].history
                      /\ sessions'[u].session_start = sessions[u].session_start
          IN  /\ last'.kind \notin {"start", "reset", "message"} => kept
              /\ ~kept =>
                    /\ last'.user = u
                    /\ \/ last'.kind \in {"start", "reset"}
                       \/ /\ last'.kind = "message"
                          /\ _is_setup_complete(u)
      ]_vars

C30_Witness ==
    /\ last.kind \in SelectKinds \cup {CALLBACK_SKIP, "other"}
    /\ last.fault = "none"
    /\ LastHasSession
    /\ Len(LastSession.history) = 2
    /\ LastSession.session_start = 1
    /\ call.fn = "clock"
    /\ call.now = 2

\* C31: in every reachable state where a session has both a university and
\* a faculty bound, the bound faculty is a faculty of the bound university.
C31_HierarchyConsistent ==
    \A u \in DOMAIN sessions :
        (Truthy(sessions[u].university_id) /\ Truthy(sessions[u].faculty_id)) =>
            /\ sessions[u].faculty_id \in DOMAIN FacultyTable
            /\ FacultyTable[sessions[u].faculty_id].university_id
                  = sessions[u].university_id

\* C32: in every reachable state a bound department implies a bound
\* faculty, and the department is a department of that faculty.
C32_DepartmentUnderFaculty ==
    \A u \in DOMAIN sessions :
        Truthy(sessions[u].department_id) =>
            /\ Truthy(sessions[u].faculty_id)
            /\ sessions[u].department_id \in DOMAIN DepartmentTable
            /\ DepartmentTable[sessions[u].department_id].faculty_id
                  = sessions[u].faculty_id

\* C33: once a user's selection is complete it stays complete under every
\* event that is not /start or /reset.
C33_ReadyStable ==
    [][\A u \in DOMAIN sessions :
          (_is_setup_complete(u) /\ last'.kind \notin {"start", "reset"}) =>
              /\ u \in DOMAIN sessions'
              /\ Truthy(sessions'[u].university_id)
              /\ Truthy(sessions'[u].faculty_id)
      ]_vars

\* C35: a select or skip event of a user without a session creates no
\* session, changes no session, is not left by an exception, and is
\* answered with an error reply that asks for /start.
C35_NoSessionSelect ==
    [][(/\ last'.kind \in SelectKinds \cup {CALLBACK_SKIP}
        /\ last'.user \notin DOMAIN sessions) =>
              /\ sessions' = sessions
              /\ last'.reply \in {"error", "not_found"}
      ]_vars

\* C36: a select event that ends with an error reply leaves the sessions
\* as they were before the event.
C36_ErrorLeavesSession ==
    [][(/\ last'.kind \in SelectKinds
        /\ last'.reply \in {"error", "not_found"}) =>
              sessions' = sessions
      ]_vars

\* C37: /help, /status and a refused free-text message leave the sessions
\* dict as it was, its key set and every field of every session, also for
\* a user who has no session.
C37_ReadOnlyEvents ==
    [][(\/ last'.kind \in {"help", "status"}
        \/ last'.kind = "message" /\ last'.reply = "incomplete_selection") =>
              sessions' = sessions
      ]_vars

C37_Witness ==
    /\ last.kind \in {"help", "status", "message"}
    /\ last.reply \in {"help", "no_active_session", "incomplete_selection"}
    /\ last.user = 2
    /\ 2 \notin DOMAIN sessions
    /\ 1 \in DOMAIN sessions
    /\ Truthy(sessions[1].university_id)

\* C34 as stated: under sequential dispatch no session history holds two
\* consecutive turns of the same role, and a non-empty history ends with an
\* assistant turn, also after cap eviction and after upstream failures.
C34_RolesAlternate ==
    \A u \in DOMAIN sessions :
        LET h == sessions[u].history
        IN  /\ \A i \in 1..(Len(h) - 1) : h[i].role # h[i + 1].role
            /\ Len(h) > 0 => h[Len(h)].role = "assistant"

\* C34, amended: under sequential dispatch every assistant turn that is not
\* the oldest kept turn directly follows the user turn it answers, so no
\* two assistant turns are consecutive; two consecutive user turns occur
\* only where the generative call for the first of them failed (no answer
\* to it was ever recorded); and after a successfully answered message the
\* last turn is that answer.
C34_AnswerFollowsQuestion ==
    /\ \A u \in DOMAIN sessions :
          LET h == sessions[u].history
          IN  /\ \A i \in 2..Len(h) :
                    h[i].role = "assistant" =>
                        /\ h[i - 1].role = "user"
                        /\ h[i].content = generate_chat_response(h[i - 1].content)
              /\ \A i \in 1..(Len(h) - 1) :
                    (h[i].role = "user" /\ h[i + 1].role = "user") =>
                        \A j \in 1..Len(log[u]) :
                            log[u][j] # [role |-> "assistant",
                                         content |-> generate_chat_response(h[i].content)]
              /\ \A i \in 1..Len(h) : h[i].role \in {"user", "assistant"}
    /\ (last.kind = "message" /\ last.reply = "ai_response") =>
          LET h == sessions[last.user].history
          IN  /\ Len(h) > 0
              /\ h[Len(h)] = [role |-> "assistant",
                              content |-> generate_chat_response(last.arg)]

C34_Witness ==
    /\ last.kind = "message"
    /\ last.reply = "ai_response"
    /\ Len(sessions[1].history) = MAX_HISTORY_MESSAGES
    /\ sessions[1].history[MAX_HISTORY_MESSAGES].role = "assistant"
    /\ \E i \in 1..(MAX_HISTORY_MESSAGES - 1) :
          /\ sessions[1].history[i].role = "user"
          /\ sessions[1].history[i + 1].role = "user"


\* C38: a restart is not undone by a message in flight: when /reset came
\* while a message dispatch of the same user was between its user-turn
\* append and its assistant-turn append, the new session's history is empty
\* once that dispatch has finished too.
C38_RestartNotUndone ==
    [][\A d \in inflight :
          (/\ ~d.s.alias
           /\ Len(d.s.list) > 0
           /\ d.s.list[Len(d.s.list)] = Turn("user", d.text)
           /\ inflight' = {}) =>
                 sessions'[d.user].history = <<>>
      ]_vars

\* C39: no selection dead end: from every reachable session state and for
\* every active university the user may choose, with or without faculties,
\* a restart followed by the selection steps the bot offers leads to a
\* free-text message that is accepted, provided the directory calls succeed.
C39_NoDeadEnd ==
    (call.fn = "goal") ~> (last.kind = "message" /\ last.reply = "ai_response")

====
